---- MODULE Spec2Model ----
(***************************************************************************)
(* Aggregation and comparison engine of the leaderboard / dashboard        *)
(* services (app/services/leaderboard_service.py, dashboard_service.py).   *)
(*                                                                         *)
(* Encoding.                                                               *)
(*  - An optional value (SQL NULL / Python None) is the empty sequence     *)
(*    None; a present value v is <<v>>.                                    *)
(*  - value_factor and the combined performance figures are integers in    *)
(*    units of 10^-5; weight_factor is an integer in units of 10^-3.       *)
(*    round(x, 4) and round(x, 2) are therefore roundings to a multiple    *)
(*    of 10 units (half to even, as Python's round on an exact decimal).   *)
(*  - record_date is a day number: d stands for 2026-02-d.                 *)
(*  - A user is a positive integer (its order is the collation order of    *)
(*    the user column).                                                    *)
(*  - A query without ORDER BY, and the order of rows that tie on an       *)
(*    ORDER BY key, are chosen by the database for every request: the      *)
(*    handlers take the delivered order as the parameter `ord`.            *)
(*  - The handlers keep no state between requests.  A behaviour is one     *)
(*    store, one request drawn from the bounded input sets, and the        *)
(*    handler's answer; in the paging specification the client goes on     *)
(*    to request the following pages with the same parameters.             *)
(*      request   : the request being served                              *)
(*      delivered : the rows the database delivered to the handler        *)
(*      response  : Pending, then the handler's answer                    *)
(*      fetched   : the answers to the earlier pages of a paging client   *)
(*  - redis is the content of the Redis server app/core/cache.py talks     *)
(*    to: the empty sequence when REDIS_URL is not set (the default).      *)
(***************************************************************************)
EXTENDS Integers, Sequences, FiniteSets, TLC

VARIABLES consultantUser, geniusUser, consultantCountry, geniusCountry,
          consultantUniversity, eventUpdateRecord, redis, request, delivered,
          response, fetched

vars == <<consultantUser, geniusUser, consultantCountry, geniusCountry,
          consultantUniversity, eventUpdateRecord, redis, request, delivered,
          response, fetched>>

\* What lies outside the process: the six tables and the Redis keys.
tables == <<consultantUser, geniusUser, consultantCountry, geniusCountry,
           consultantUniversity, eventUpdateRecord, redis>>

-----------------------------------------------------------------------------
(* Bounds *)

MaxUsers == 3

MaxPage == 3

MaxPageSize == 2

MaxLimit == 2

MaxBins == 3

MaxLen == 3

MaxVal == 3

Users == 1..MaxUsers

-----------------------------------------------------------------------------
(* Optional values and arithmetic helpers *)

None == <<>>

Some(v) == <<v>>

Val(o) == o[1]

Abs(x) == IF x < 0 THEN -x ELSE x

Max2(a, b) == IF a >= b THEN a ELSE b

Min2(a, b) == IF a <= b THEN a ELSE b

SetMax(S) == CHOOSE x \in S : \A y \in S : y <= x

SetMin(S) == CHOOSE x \in S : \A y \in S : x <= y

Range(s) == {s[i] : i \in 1..Len(s)}

\* All orders in which the database may deliver the set S of rows.
Orders(S) == {s \in [1..Cardinality(S) -> S] : Range(s) = S}

\* n / d rounded to the nearest integer, halves to the even neighbour (d > 0).
RoundHalfEven(n, d) ==
  LET q == n \div d
      r == n % d
  IN  IF 2 * r < d THEN q
      ELSE IF 2 * r > d THEN q + 1
      ELSE IF q % 2 = 0 THEN q ELSE q + 1

\* round(x, 4) on a value in units of 10^-5; round(x, 2) on one in 10^-3.
Round4(x) == 10 * RoundHalfEven(x, 10)

Round2(x) == 10 * RoundHalfEven(x, 10)

RECURSIVE SumSeq(_)
SumSeq(s) == IF s = <<>> THEN 0 ELSE s[1] + SumSeq(Tail(s))

\* seq[start:end] of Python, 0-based, end exclusive, clipped to the list.
Slice(seq, start, end) ==
  LET lo == Min2(Max2(start, 0), Len(seq))
      hi == Min2(Max2(end, lo), Len(seq))
  IN  [i \in 1..(hi - lo) |-> seq[lo + i]]

\* An insertion that puts the item ahead of the items of equal key.
InsertAheadOfEqual(sorted, item, field, reverse) ==
  LET Before(x) == IF reverse THEN x[field] > item[field]
                              ELSE x[field] < item[field]
      k == Cardinality({i \in 1..Len(sorted) : \A j \in 1..i : Before(sorted[j])})
  IN  [i \in 1..(Len(sorted) + 1) |->
         IF i <= k THEN sorted[i]
         ELSE IF i = k + 1 THEN item
         ELSE sorted[i - 1]]

\* list.sort(key=lambda item: item[field], reverse=reverse): a stable sort.
\* reverse=True keeps the original order of equal keys as well.
InsertSorted(sorted, item, field, reverse) ==
  LET Before(x) == IF reverse THEN x[field] >= item[field]
                              ELSE x[field] <= item[field]
      k == Cardinality({i \in 1..Len(sorted) : \A j \in 1..i : Before(sorted[j])})
  IN  [i \in 1..(Len(sorted) + 1) |->
         IF i <= k THEN sorted[i]
         ELSE IF i = k + 1 THEN item
         ELSE sorted[i - 1]]

RECURSIVE SortPrefix(_, _, _, _)
SortPrefix(rows, n, field, reverse) ==
  IF n = 0 THEN <<>>
  ELSE InsertSorted(SortPrefix(rows, n - 1, field, reverse), rows[n], field, reverse)

StableSort(rows, field, reverse) == SortPrefix(rows, Len(rows), field, reverse)

-----------------------------------------------------------------------------
(* Program constants *)

VALUE_FACTOR_BASE_DATE == 10

VALUE_FACTOR_TARGET_DATE == 11

COMBINED_BASE_DATE == 10

COMBINED_TARGET_DATE == 11

\* 0.5 in units of 10^-5
Half == 50000

-----------------------------------------------------------------------------
(* Store rows *)

ConsultantUserRow(u, d, w, vf, c, uni, sub, sa) ==
  [user |-> u, record_date |-> d, delete_flag |-> FALSE,
   weight_factor |-> w, value_factor |-> vf, country |-> c, university |-> uni,
   submissions_count |-> sub, super_alpha_submissions_count |-> sa]

ConsultantCountryRow(c, d, w) ==
  [country |-> c, record_date |-> d, delete_flag |-> FALSE, weight_factor |-> w,
   user |-> None, submissions_count |-> None, super_alpha_submissions_count |-> None]

GeniusUserRow(u, d, lvl, c, a, pp, sel) ==
  [user |-> u, record_date |-> d, delete_flag |-> FALSE,
   genius_level |-> lvl, country |-> c,
   combined_alpha_performance |-> a,
   combined_power_pool_alpha_performance |-> pp,
   combined_selected_alpha_performance |-> sel]

\* SQL MAX over a group of optional values: NULLs are ignored.
MaxOpt(S) ==
  LET present == {Val(o) : o \in {x \in S : x # None}}
  IN  IF present = {} THEN None ELSE Some(SetMax(present))

\* SQL MAX over a group of optional strings; the store holds at most one
\* live row per (user, record_date), so the group has one candidate.
MaxStr(S) ==
  LET present == {x \in S : x # None}
  IN  IF present = {} THEN None ELSE CHOOSE x \in present : TRUE

Coalesce(s) ==
  LET present == {i \in 1..Len(s) : s[i] # None}
  IN  IF present = {} THEN None ELSE s[SetMin(present)]

-----------------------------------------------------------------------------
(* Value-factor comparison: the joined row set of get_value_factor_user_changes *)

LiveOn(table, d) == {r \in table : ~r.delete_flag /\ r.record_date = d}

\* ConsultantSubq without its record_date condition.
ConsultantSubqAnyDate(cu, d) ==
  LET src == {r \in cu : ~r.delete_flag /\ r.value_factor # None}
  IN  {[user |-> u,
        value_factor |-> MaxOpt({r.value_factor : r \in {x \in src : x.user = u}}),
        country |-> MaxStr({r.country : r \in {x \in src : x.user = u}}),
        university |-> MaxStr({r.university : r \in {x \in src : x.user = u}})]
       : u \in {r.user : r \in src}}

\* target_consultant_subq / base_consultant_subq: one group per user over the
\* live rows of date d whose value_factor is not NULL.
ConsultantSubq(cu, d) ==
  LET src == {r \in LiveOn(cu, d) : r.value_factor # None}
  IN  {[user |-> u,
        value_factor |-> MaxOpt({r.value_factor : r \in {x \in src : x.user = u}}),
        country |-> MaxStr({r.country : r \in {x \in src : x.user = u}}),
        university |-> MaxStr({r.university : r \in {x \in src : x.user = u}})]
       : u \in {r.user : r \in src}}

\* target_genius_subq / base_genius_subq (the user column of the genius table
\* is nullable: it holds None or <<u>>).
GeniusSubq(gu, d) ==
  LET src == {r \in LiveOn(gu, d) : r.user # None}
  IN  {[user |-> u,
        genius_level |-> MaxStr({r.genius_level : r \in {x \in src : Val(x.user) = u}}),
        country |-> MaxStr({r.country : r \in {x \in src : Val(x.user) = u}})]
       : u \in {Val(r.user) : r \in src}}

\* The column c of the subquery row of user u, NULL when the outer join
\* finds no row for u.
Col(subq, u, c) ==
  IF \E r \in subq : r.user = u THEN (CHOOSE r \in subq : r.user = u)[c] ELSE None

\* users_subq UNION and the four outer joins: one row per user.
ValueFactorUserRows(cu, gu) ==
  LET tc == ConsultantSubq(cu, VALUE_FACTOR_TARGET_DATE)
      bc == ConsultantSubq(cu, VALUE_FACTOR_BASE_DATE)
      tg == GeniusSubq(gu, VALUE_FACTOR_TARGET_DATE)
      bg == GeniusSubq(gu, VALUE_FACTOR_BASE_DATE)
  IN  {[user |-> u,
        target_value_factor |-> Col(tc, u, "value_factor"),
        base_value_factor |-> Col(bc, u, "value_factor"),
        genius_level |-> Coalesce(<<Col(tg, u, "genius_level"), Col(bg, u, "genius_level")>>),
        country |-> Coalesce(<<Col(tg, u, "country"), Col(bg, u, "country"),
                               Col(tc, u, "country"), Col(bc, u, "country")>>),
        university |-> Coalesce(<<Col(tc, u, "university"), Col(bc, u, "university")>>)]
       : u \in {r.user : r \in tc} \cup {r.user : r \in bc}}

\* BothHalf that looks at the base value only.
BothHalfBaseOnly(base_value, target_value) == Abs(base_value - Half) < 1

\* abs(base_value - 0.5) < 1e-9 and abs(target_value - 0.5) < 1e-9: the
\* tolerance is below one unit.
BothHalf(base_value, target_value) ==
  Abs(base_value - Half) < 1 /\ Abs(target_value - Half) < 1

\* `if countries and row_country not in countries: continue`; an empty or
\* absent list is the empty set and filters nothing.
FilteredOut(wanted, value) ==
  wanted # {} /\ (value = None \/ Val(value) \notin wanted)

\* The loop that builds filtered_rows of get_value_factor_user_changes.
ValueFactorKeep(row, countries, genius_levels, exclude_both_half) ==
  /\ row.target_value_factor # None
  /\ row.base_value_factor # None
  /\ ~(exclude_both_half /\ BothHalf(Val(row.base_value_factor), Val(row.target_value_factor)))
  /\ ~FilteredOut(countries, row.country)
  /\ ~FilteredOut(genius_levels, row.genius_level)

ValueFactorItem(row) ==
  [user |-> row.user, country |-> row.country, university |-> row.university,
   genius_level |-> row.genius_level,
   base_value_factor |-> Val(row.base_value_factor),
   target_value_factor |-> Val(row.target_value_factor),
   change |-> Val(row.target_value_factor) - Val(row.base_value_factor)]

ValueFactorFilteredRows(ord, countries, genius_levels, exclude_both_half) ==
  LET Keep(row) == ValueFactorKeep(row, countries, genius_levels, exclude_both_half)
      kept == SelectSeq(ord, Keep)
  IN  [i \in 1..Len(kept) |-> ValueFactorItem(kept[i])]

ValueFactorSortField(sort_by) ==
  IF sort_by \in {"base_value_factor", "target_value_factor", "change"}
  THEN sort_by ELSE "change"

\* A slice that takes page numbers as 0-based.
PageSliceFromPageZero(rows, page, page_size) ==
  Slice(rows, Max2(page, 1) * Max2(page_size, 1), (Max2(page, 1) + 1) * Max2(page_size, 1))

\* safe_page, safe_page_size, start_index, end_index and the slice.
PageSlice(rows, page, page_size) ==
  LET safe_page == Max2(page, 1)
      safe_page_size == Max2(page_size, 1)
      start_index == (safe_page - 1) * safe_page_size
      end_index == start_index + safe_page_size
  IN  Slice(rows, start_index, end_index)

ValueFactorOutputItem(item) ==
  [user |-> item.user, country |-> item.country, university |-> item.university,
   genius_level |-> item.genius_level,
   base_value_factor |-> Round4(item.base_value_factor),
   target_value_factor |-> Round4(item.target_value_factor),
   change |-> Round4(item.change)]

\* get_value_factor_user_changes on the rows delivered in the order ord.
ValueFactorUserChanges(ord, sort_by, sort_order, page, page_size, countries, genius_levels, exclude_both_half) ==
  LET filtered_rows == ValueFactorFilteredRows(ord, countries, genius_levels, exclude_both_half)
      sorted == StableSort(filtered_rows, ValueFactorSortField(sort_by), sort_order # "asc")
      page_items == PageSlice(sorted, page, page_size)
  IN  [total |-> Len(filtered_rows),
       page |-> Max2(page, 1),
       page_size |-> Max2(page_size, 1),
       items |-> [i \in 1..Len(page_items) |-> ValueFactorOutputItem(page_items[i])]]

Pending == [op |-> "pending"]

NoRows == <<>>

\* The request handler: the database delivers ord, the handler answers.
GetValueFactorUserChanges ==
  /\ request.op = "value_factor_user_changes"
  /\ response = Pending
  /\ \E ord \in Orders(ValueFactorUserRows(consultantUser, geniusUser)) :
       /\ delivered' = ord
       /\ response' = [op |-> request.op,
                       body |-> ValueFactorUserChanges(ord, request.sort_by,
                                  request.sort_order, request.page, request.page_size,
                                  request.countries, request.genius_levels,
                                  request.exclude_both_half)]
  /\ UNCHANGED <<tables, request, fetched>>

-----------------------------------------------------------------------------
(* Combined-performance comparison: _collect_combined_rows and its callers *)

\* target_subq / base_subq of _collect_combined_rows
CombinedSubq(gu, d) ==
  LET src == {r \in LiveOn(gu, d) : r.user # None}
      Of(u) == {x \in src : Val(x.user) = u}
  IN  {[user |-> u,
        alpha |-> MaxOpt({r.combined_alpha_performance : r \in Of(u)}),
        power_pool |-> MaxOpt({r.combined_power_pool_alpha_performance : r \in Of(u)}),
        selected |-> MaxOpt({r.combined_selected_alpha_performance : r \in Of(u)}),
        country |-> MaxStr({r.country : r \in Of(u)}),
        genius_level |-> MaxStr({r.genius_level : r \in Of(u)})]
       : u \in {Val(r.user) : r \in src}}

\* users_subq UNION and the two outer joins: one row per user.
CombinedUserRows(gu) ==
  LET t == CombinedSubq(gu, COMBINED_TARGET_DATE)
      b == CombinedSubq(gu, COMBINED_BASE_DATE)
  IN  {[user |-> u,
        target_alpha |-> Col(t, u, "alpha"), base_alpha |-> Col(b, u, "alpha"),
        target_power_pool |-> Col(t, u, "power_pool"),
        base_power_pool |-> Col(b, u, "power_pool"),
        target_selected |-> Col(t, u, "selected"),
        base_selected |-> Col(b, u, "selected"),
        country |-> Coalesce(<<Col(t, u, "country"), Col(b, u, "country")>>),
        genius_level |-> Coalesce(<<Col(t, u, "genius_level"), Col(b, u, "genius_level")>>)]
       : u \in {r.user : r \in t} \cup {r.user : r \in b}}

TargetReady(row) ==
  row.target_alpha # None /\ row.target_power_pool # None /\ row.target_selected # None

BaseReady(row) ==
  row.base_alpha # None /\ row.base_power_pool # None /\ row.base_selected # None

\* BothZero that looks at the base value only.
BothZeroBaseOnly(base_value, target_value) == Abs(base_value) < 1

\* abs(base) < 1e-12 and abs(target) < 1e-12: the tolerance is below one unit.
BothZero(base_value, target_value) == Abs(base_value) < 1 /\ Abs(target_value) < 1

\* The conditions under which the loop of _collect_combined_rows reaches
\* comparable_rows.append for a row.
CombinedKeep(row, countries, genius_levels, exclude_alpha_both_zero, exclude_power_pool_both_zero, exclude_selected_both_zero) ==
  /\ TargetReady(row)
  /\ BaseReady(row)
  /\ ~FilteredOut(countries, row.country)
  /\ ~FilteredOut(genius_levels, row.genius_level)
  /\ ~(exclude_alpha_both_zero /\ BothZero(Val(row.base_alpha), Val(row.target_alpha)))
  /\ ~(exclude_power_pool_both_zero
         /\ BothZero(Val(row.base_power_pool), Val(row.target_power_pool)))
  /\ ~(exclude_selected_both_zero
         /\ BothZero(Val(row.base_selected), Val(row.target_selected)))

CombinedItem(row) ==
  [user |-> row.user, country |-> row.country, genius_level |-> row.genius_level,
   base_alpha |-> Val(row.base_alpha), target_alpha |-> Val(row.target_alpha),
   alpha_change |-> Val(row.target_alpha) - Val(row.base_alpha),
   base_power_pool |-> Val(row.base_power_pool),
   target_power_pool |-> Val(row.target_power_pool),
   power_pool_change |-> Val(row.target_power_pool) - Val(row.base_power_pool),
   base_selected |-> Val(row.base_selected), target_selected |-> Val(row.target_selected),
   selected_change |-> Val(row.target_selected) - Val(row.base_selected)]

\* _collect_combined_rows on the rows delivered in the order ord.
CollectCombinedRows(ord, countries, genius_levels, exclude_alpha_both_zero, exclude_power_pool_both_zero, exclude_selected_both_zero) ==
  LET Keep(row) == CombinedKeep(row, countries, genius_levels, exclude_alpha_both_zero,
                                exclude_power_pool_both_zero, exclude_selected_both_zero)
      New(row) == TargetReady(row) /\ ~BaseReady(row)
      Missing(row) == BaseReady(row) /\ ~TargetReady(row)
      kept == SelectSeq(ord, Keep)
  IN  [users_on_target_date |-> Len(SelectSeq(ord, TargetReady)),
       users_on_base_date |-> Len(SelectSeq(ord, BaseReady)),
       new_users |-> Len(SelectSeq(ord, New)),
       missing_users |-> Len(SelectSeq(ord, Missing)),
       rows |-> [i \in 1..Len(kept) |-> CombinedItem(kept[i])]]

CombinedSortKeys ==
  {"alpha_change", "power_pool_change", "selected_change", "base_alpha", "target_alpha",
   "base_power_pool", "target_power_pool", "base_selected", "target_selected"}

\* sort_key_map.get(sort_by, "alpha_change")
CombinedSortKey(sort_by) == IF sort_by \in CombinedSortKeys THEN sort_by ELSE "alpha_change"

CombinedOutputItem(item) ==
  [user |-> item.user, country |-> item.country, genius_level |-> item.genius_level,
   base_alpha |-> Round4(item.base_alpha), target_alpha |-> Round4(item.target_alpha),
   alpha_change |-> Round4(item.alpha_change),
   base_power_pool |-> Round4(item.base_power_pool),
   target_power_pool |-> Round4(item.target_power_pool),
   power_pool_change |-> Round4(item.power_pool_change),
   base_selected |-> Round4(item.base_selected),
   target_selected |-> Round4(item.target_selected),
   selected_change |-> Round4(item.selected_change)]

\* get_combined_user_changes on the rows delivered in the order ord.
CombinedUserChanges(ord, sort_by, sort_order, page, page_size, countries, genius_levels, exclude_alpha_both_zero, exclude_power_pool_both_zero, exclude_selected_both_zero) ==
  LET payload == CollectCombinedRows(ord, countries, genius_levels, exclude_alpha_both_zero,
                   exclude_power_pool_both_zero, exclude_selected_both_zero)
      sorted == StableSort(payload.rows, CombinedSortKey(sort_by), sort_order # "asc")
      page_items == PageSlice(sorted, page, page_size)
  IN  [total |-> Len(sorted),
       page |-> Max2(page, 1),
       page_size |-> Max2(page_size, 1),
       items |-> [i \in 1..Len(page_items) |-> CombinedOutputItem(page_items[i])]]

GetCombinedUserChanges ==
  /\ request.op = "combined_user_changes"
  /\ response = Pending
  /\ \E ord \in Orders(CombinedUserRows(geniusUser)) :
       /\ delivered' = ord
       /\ response' = [op |-> request.op,
                       body |-> CombinedUserChanges(ord, request.sort_by,
                                  request.sort_order, request.page, request.page_size,
                                  request.countries, request.genius_levels,
                                  request.exclude_alpha_both_zero,
                                  request.exclude_power_pool_both_zero,
                                  request.exclude_selected_both_zero)]
  /\ UNCHANGED <<tables, request, fetched>>

-----------------------------------------------------------------------------
(* Summary statistics: _median, _build_distribution, the dimension aggregate *)

\* round(n / d, 4) for a quotient of values in units of 10^-5 (d > 0).
Round4Div(n, d) == 10 * RoundHalfEven(n, 10 * d)

\* sorted(values) for a list of numbers.
SortedValues(values) ==
  LET recs == [i \in 1..Len(values) |-> [v |-> values[i]]]
      srt == StableSort(recs, "v", FALSE)
  IN  [i \in 1..Len(srt) |-> srt[i].v]

\* The middle of the list as it was given, in place of the sorted list.
MedianOfUnsorted(values) ==
  IF values = <<>> THEN [num |-> 0, den |-> 1]
  ELSE LET mid == Len(values) \div 2
       IN  IF Len(values) % 2 = 0
           THEN [num |-> values[mid] + values[mid + 1], den |-> 2]
           ELSE [num |-> values[mid + 1], den |-> 1]

\* _median: the result is the fraction num / den (den is 1 or 2).
Median(values) ==
  IF values = <<>> THEN [num |-> 0, den |-> 1]
  ELSE LET sorted_values == SortedValues(values)
           mid == Len(sorted_values) \div 2
       IN  IF Len(sorted_values) % 2 = 0
           THEN [num |-> sorted_values[mid] + sorted_values[mid + 1], den |-> 2]
           ELSE [num |-> sorted_values[mid + 1], den |-> 1]

\* round(sum(values) / len(values), 4) if values else 0.0
RoundedMean(values) ==
  IF values = <<>> THEN 0 ELSE Round4Div(SumSeq(values), Len(values))

RoundedMedian(values) == LET m == Median(values) IN Round4Div(m.num, m.den)

\* index = min(int((value - min_value) / step), bins - 1), step being
\* (max_value - min_value) / bins, for values in units of 1e-5: at this size
\* the rounding of step is far below the unit, and the quotient is taken as
\* that of the exact numbers.
BinIndex(value, min_value, max_value, bins) ==
  Min2(((value - min_value) * bins) \div (max_value - min_value), bins - 1)

\* _build_distribution.  A label is the pair of its two edges to four
\* decimals (one edge in the single-bin case).
BuildDistribution(values, bins) ==
  IF values = <<>> THEN [labels |-> <<>>, counts |-> <<>>]
  ELSE
    LET min_value == SetMin(Range(values))
        max_value == SetMax(Range(values))
        span == max_value - min_value
        Edge(i) == Round4Div(min_value * bins + span * i, bins)
    IN  IF min_value = max_value
        THEN [labels |-> << <<Round4(min_value)>> >>, counts |-> <<Len(values)>>]
        ELSE [labels |-> [i \in 1..bins |->
                            <<Edge(i - 1),
                              IF i = bins THEN Round4(max_value) ELSE Edge(i)>>],
              counts |-> [i \in 1..bins |->
                            Cardinality({k \in 1..Len(values) :
                              BinIndex(values[k], min_value, max_value, bins) = i - 1})]]

\* _build_distribution on doubles so small that they are whole multiples of
\* the smallest positive double, 2^-1074 (the subnormal doubles).  On these
\* the float operations of the function are whole-number operations: a
\* difference or a sum of two of them is exact, max - min divided by bins is
\* rounded to the nearest multiple (halves to the even one), and the quotient
\* of two small multiples is far enough from the next whole number for int()
\* to be the floor of the exact quotient.

\* step = (max_value - min_value) / bins, in multiples of 2^-1074.
SubnormalStep(min_value, max_value, bins) == RoundHalfEven(max_value - min_value, bins)

\* index = min(int((value - min_value) / step), bins - 1)
SubnormalBinIndex(value, min_value, step, bins) ==
  Min2((value - min_value) \div step, bins - 1)

\* f"{x:.4f}" of a subnormal double.
SubnormalLabel(x) == IF x < 0 THEN "-0.0000" ELSE "0.0000"

\* What a call of a function gives: the value it returns or the exception
\* it raises.
Returned(value) == [returned |-> TRUE, value |-> value]

Raised(exception) == [returned |-> FALSE, exception |-> exception]

\* _build_distribution on subnormal doubles, each given as its multiple of
\* 2^-1074.  A step that rounds to 0.0 makes the division of the counting
\* loop raise ZeroDivisionError.
BuildDistributionOfSubnormals(values, bins) ==
  IF values = <<>> THEN Returned([labels |-> <<>>, counts |-> <<>>])
  ELSE
    LET min_value == SetMin(Range(values))
        max_value == SetMax(Range(values))
        step == SubnormalStep(min_value, max_value, bins)
    IN  IF min_value = max_value
        THEN Returned([labels |-> <<SubnormalLabel(min_value)>>,
                       counts |-> <<Len(values)>>])
        ELSE IF step = 0 THEN Raised("ZeroDivisionError")
        ELSE Returned(
               [labels |-> [i \in 1..bins |->
                              <<SubnormalLabel(min_value + step * (i - 1)),
                                SubnormalLabel(IF i = bins THEN max_value
                                               ELSE min_value + step * i)>>],
                counts |-> [i \in 1..bins |->
                              Cardinality({k \in 1..Len(values) :
                                SubnormalBinIndex(values[k], min_value, step, bins)
                                  = i - 1})]])

\* One call of _build_distribution on the values and bins drawn.
ApplyBuildDistribution ==
  /\ request.op = "build_distribution"
  /\ response = Pending
  /\ response' = [op |-> request.op,
                  body |-> BuildDistributionOfSubnormals(request.values, request.bins)]
  /\ UNCHANGED <<tables, request, delivered, fetched>>

DistributionBins == 10

TopN == 20

\* The collation rank of the dimension keys that occur in the stores.
DimensionRank(key) ==
  CASE key = "CN" -> 1
    [] key = "MIT" -> 2
    [] key = "THU" -> 3
    [] key = "UNKNOWN" -> 4
    [] key = "US" -> 5
    [] OTHER -> 6

\* str(item.get(key_name) or "UNKNOWN")
DimensionKey(item, key_name) ==
  IF item[key_name] = None THEN "UNKNOWN" ELSE Val(item[key_name])

\* The keys of `grouped` in insertion order (first appearance in records).
RECURSIVE GroupKeys(_, _)
GroupKeys(records, key_name) ==
  IF records = <<>> THEN <<>>
  ELSE LET front == GroupKeys(SubSeq(records, 1, Len(records) - 1), key_name)
           key == DimensionKey(records[Len(records)], key_name)
       IN  IF key \in Range(front) THEN front ELSE Append(front, key)

Column(records, field) == [i \in 1..Len(records) |-> records[i][field]]

\* _aggregate_value_factor_dimension
AggregateValueFactorDimension(records, key_name, top_n) ==
  LET keys == GroupKeys(records, key_name)
      Group(key) == LET In(item) == DimensionKey(item, key_name) = key
                    IN  SelectSeq(records, In)
      Positive(x) == x > 0
      Negative(x) == x < 0
      Zero(x) == ~(x > 0) /\ ~(x < 0)
      Result(key) ==
        LET changes == Column(Group(key), "change")
        IN  [dimension |-> key,
             comparable_users |-> Len(changes),
             avg_target_value_factor |->
               RoundedMean(Column(Group(key), "target_value_factor")),
             avg_base_value_factor |-> RoundedMean(Column(Group(key), "base_value_factor")),
             avg_change |-> RoundedMean(changes),
             median_change |-> RoundedMedian(changes),
             increased_users |-> Len(SelectSeq(changes, Positive)),
             decreased_users |-> Len(SelectSeq(changes, Negative)),
             unchanged_users |-> Len(SelectSeq(changes, Zero))]
      results == [i \in 1..Len(keys) |->
                    [r |-> Result(keys[i]), rank |-> DimensionRank(keys[i]),
                     avg_change |-> Result(keys[i]).avg_change,
                     comparable_users |-> Result(keys[i]).comparable_users]]
      \* key (-comparable_users, -avg_change, dimension): three stable passes,
      \* least significant first
      by_dimension == StableSort(results, "rank", FALSE)
      by_change == StableSort(by_dimension, "avg_change", TRUE)
      by_users == StableSort(by_change, "comparable_users", TRUE)
      top == Slice(by_users, 0, top_n)
  IN  [i \in 1..Len(top) |-> top[i].r]

-----------------------------------------------------------------------------
(* get_value_factor_analysis and get_combined_analysis *)

\* users_subq UNION and the two outer joins of get_value_factor_analysis.
ValueFactorAnalysisRows(cu) ==
  LET t == ConsultantSubq(cu, VALUE_FACTOR_TARGET_DATE)
      b == ConsultantSubq(cu, VALUE_FACTOR_BASE_DATE)
  IN  {[user |-> u,
        target_value_factor |-> Col(t, u, "value_factor"),
        base_value_factor |-> Col(b, u, "value_factor"),
        country |-> Coalesce(<<Col(t, u, "country"), Col(b, u, "country")>>),
        university |-> Coalesce(<<Col(t, u, "university"), Col(b, u, "university")>>)]
       : u \in {r.user : r \in t} \cup {r.user : r \in b}}

AnalysisItem(row) ==
  [user |-> row.user, country |-> row.country, university |-> row.university,
   base_value_factor |-> Val(row.base_value_factor),
   target_value_factor |-> Val(row.target_value_factor),
   change |-> Val(row.target_value_factor) - Val(row.base_value_factor)]

AnalysisOutputItem(item) ==
  [user |-> item.user, country |-> item.country, university |-> item.university,
   base_value_factor |-> Round4(item.base_value_factor),
   target_value_factor |-> Round4(item.target_value_factor),
   change |-> Round4(item.change)]

IsPositive(x) == x > 0

IsNegative(x) == x < 0

IsNotNegative(x) == x >= 0

IsZero(x) == x = 0

\* round(max(changes), 4) if changes else 0.0, and the same for min
RoundedMax(values) == IF values = <<>> THEN 0 ELSE Round4(SetMax(Range(values)))

RoundedMin(values) == IF values = <<>> THEN 0 ELSE Round4(SetMin(Range(values)))

\* get_value_factor_analysis on the rows delivered in the order ord.
ValueFactorAnalysis(ord, exclude_both_half) ==
  LET HasTarget(row) == row.target_value_factor # None
      HasBase(row) == row.base_value_factor # None
      New(row) == HasTarget(row) /\ ~HasBase(row)
      Missing(row) == ~HasTarget(row) /\ HasBase(row)
      Keep(row) ==
        /\ HasTarget(row)
        /\ HasBase(row)
        /\ ~(exclude_both_half
               /\ BothHalf(Val(row.base_value_factor), Val(row.target_value_factor)))
      kept == SelectSeq(ord, Keep)
      comparable_rows == [i \in 1..Len(kept) |-> AnalysisItem(kept[i])]
      changes == Column(comparable_rows, "change")
      sorted_desc == StableSort(comparable_rows, "change", TRUE)
      sorted_asc == StableSort(comparable_rows, "change", FALSE)
      gainers == Slice(sorted_desc, 0, TopN)
      decliners == Slice(sorted_asc, 0, TopN)
  IN  [summary |->
         [users_on_target_date |-> Len(SelectSeq(ord, HasTarget)),
          users_on_base_date |-> Len(SelectSeq(ord, HasBase)),
          comparable_users |-> Len(comparable_rows),
          new_users |-> Len(SelectSeq(ord, New)),
          missing_users |-> Len(SelectSeq(ord, Missing)),
          increased_users |-> Len(SelectSeq(changes, IsPositive)),
          decreased_users |-> Len(SelectSeq(changes, IsNegative)),
          unchanged_users |-> Len(SelectSeq(changes, IsZero)),
          avg_target_value_factor |->
            RoundedMean(Column(comparable_rows, "target_value_factor")),
          avg_base_value_factor |-> RoundedMean(Column(comparable_rows, "base_value_factor")),
          avg_change |-> RoundedMean(changes),
          median_change |-> RoundedMedian(changes),
          max_increase |-> RoundedMax(changes),
          max_decrease |-> RoundedMin(changes)],
       by_country |-> AggregateValueFactorDimension(comparable_rows, "country", TopN),
       by_university |-> AggregateValueFactorDimension(comparable_rows, "university", TopN),
       top_gainers |-> [i \in 1..Len(gainers) |-> AnalysisOutputItem(gainers[i])],
       top_decliners |-> [i \in 1..Len(decliners) |-> AnalysisOutputItem(decliners[i])],
       distribution |-> BuildDistribution(changes, DistributionBins)]

GetValueFactorAnalysis ==
  /\ request.op = "value_factor_analysis"
  /\ response = Pending
  /\ \E ord \in Orders(ValueFactorAnalysisRows(consultantUser)) :
       /\ delivered' = ord
       /\ response' = [op |-> request.op,
                       body |-> ValueFactorAnalysis(ord, request.exclude_both_half)]
  /\ UNCHANGED <<tables, request, fetched>>

\* _build_combined_metric_summary
BuildCombinedMetricSummary(rows, metric, base_key, target_key, change_key) ==
  LET changes == Column(rows, change_key)
  IN  [metric |-> metric,
       avg_target |-> RoundedMean(Column(rows, target_key)),
       avg_base |-> RoundedMean(Column(rows, base_key)),
       avg_change |-> RoundedMean(changes),
       median_change |-> RoundedMedian(changes),
       max_increase |-> RoundedMax(changes),
       max_decrease |-> RoundedMin(changes),
       increased_users |-> Len(SelectSeq(changes, IsPositive)),
       decreased_users |-> Len(SelectSeq(changes, IsNegative)),
       unchanged_users |-> Len(SelectSeq(changes, IsZero))]

\* get_combined_analysis on the rows delivered in the order ord.
CombinedAnalysis(ord, countries, genius_levels, exclude_alpha_both_zero, exclude_power_pool_both_zero, exclude_selected_both_zero) ==
  LET payload == CollectCombinedRows(ord, countries, genius_levels, exclude_alpha_both_zero,
                   exclude_power_pool_both_zero, exclude_selected_both_zero)
      rows == payload.rows
  IN  [summary |->
         [users_on_target_date |-> payload.users_on_target_date,
          users_on_base_date |-> payload.users_on_base_date,
          comparable_users |-> Len(rows),
          new_users |-> payload.new_users,
          missing_users |-> payload.missing_users],
       metric_summaries |->
         <<BuildCombinedMetricSummary(rows, "combined_alpha_performance",
                                      "base_alpha", "target_alpha", "alpha_change"),
           BuildCombinedMetricSummary(rows, "combined_power_pool_alpha_performance",
                                      "base_power_pool", "target_power_pool",
                                      "power_pool_change"),
           BuildCombinedMetricSummary(rows, "combined_selected_alpha_performance",
                                      "base_selected", "target_selected",
                                      "selected_change")>>,
       distributions |->
         [alpha |-> BuildDistribution(Column(rows, "alpha_change"), DistributionBins),
          power_pool |-> BuildDistribution(Column(rows, "power_pool_change"),
                                           DistributionBins),
          selected |-> BuildDistribution(Column(rows, "selected_change"),
                                         DistributionBins)]]

GetCombinedAnalysis ==
  /\ request.op = "combined_analysis"
  /\ response = Pending
  /\ \E ord \in Orders(CombinedUserRows(geniusUser)) :
       /\ delivered' = ord
       /\ response' = [op |-> request.op,
                       body |-> CombinedAnalysis(ord, request.countries,
                                  request.genius_levels, request.exclude_alpha_both_zero,
                                  request.exclude_power_pool_both_zero,
                                  request.exclude_selected_both_zero)]
  /\ UNCHANGED <<tables, request, fetched>>

-----------------------------------------------------------------------------
(* Date range resolution and get_genius_user_weight_changes *)

RECURSIVE Gcd(_, _)
Gcd(a, b) == IF b = 0 THEN a ELSE Gcd(b, a % b)

\* The fraction n / d in lowest terms with a positive denominator (d # 0).
Ratio(n, d) ==
  LET g == Gcd(Abs(n), Abs(d))
      sign == IF d < 0 THEN -1 ELSE 1
  IN  [num |-> sign * (n \div g), den |-> sign * (d \div g)]

\* func.max(record_date) over the live rows of a table, None on no row.
LatestDate(table) ==
  LET dates == {r.record_date : r \in {x \in table : ~x.delete_flag}}
  IN  IF dates = {} THEN None ELSE Some(SetMax(dates))

LookbackDays == 29

\* _resolve_date_range: start_date and end_date are None or a parsed date.
ResolveDateRange(gu, start_date, end_date) ==
  IF start_date # None /\ end_date # None
  THEN [start |-> start_date, end |-> end_date]
  ELSE IF LatestDate(gu) = None
  THEN [start |-> None, end |-> None]
  ELSE LET end == IF end_date = None THEN LatestDate(gu) ELSE end_date
           start == IF start_date = None THEN Some(Val(end) - LookbackDays) ELSE start_date
       IN  [start |-> start, end |-> end]

\* float(x or 0)
OrZero(o) == IF o = None THEN 0 ELSE Val(o)

\* The joined rows of get_genius_user_weight_changes: a live genius row and
\* the live consultant row of the same user and date, within [from, to],
\* after the level and country filters.
GeniusWeightRows(cu, gu, from, to, genius_levels, countries) ==
  LET joined ==
        {[user |-> Val(g.user), genius_level |-> g.genius_level,
          country |-> Coalesce(<<g.country, c.country>>),
          record_date |-> g.record_date, weight_factor |-> c.weight_factor]
         : <<g, c>> \in {p \in gu \X cu :
               /\ ~p[1].delete_flag
               /\ ~p[2].delete_flag
               /\ p[1].user = Some(p[2].user)
               /\ p[1].record_date = p[2].record_date
               /\ p[1].record_date >= from
               /\ p[1].record_date <= to}}
  IN  {r \in joined :
         /\ (genius_levels = {} \/ (r.genius_level # None /\ Val(r.genius_level) \in genius_levels))
         /\ (countries = {} \/ (r.country # None /\ Val(r.country) \in countries))}

\* An order of the joined rows by user in which the rows of a user run
\* from the latest date to the earliest.
RECURSIVE ByUserThenDateDescending(_)
ByUserThenDateDescending(rows) ==
  IF rows = {} THEN <<>>
  ELSE LET first == CHOOSE r \in rows : \A x \in rows :
                      \/ r.user < x.user
                      \/ (r.user = x.user /\ r.record_date >= x.record_date)
       IN  <<first>> \o ByUserThenDateDescending(rows \ {first})

\* ORDER BY user ASC, record_date ASC (one row per user and date).
RECURSIVE ByUserThenDate(_)
ByUserThenDate(rows) ==
  IF rows = {} THEN <<>>
  ELSE LET first == CHOOSE r \in rows : \A x \in rows :
                      \/ r.user < x.user
                      \/ (r.user = x.user /\ r.record_date <= x.record_date)
       IN  <<first>> \o ByUserThenDate(rows \ {first})

\* The user_map loop: the entry of each user in order of first appearance.
UserMapEntries(rows) ==
  LET firsts == SelectSeq([i \in 1..Len(rows) |-> i],
                          LAMBDA i : \A j \in 1..(i - 1) : rows[j].user # rows[i].user)
      Of(u) == SelectSeq(rows, LAMBDA r : r.user = u)
      FirstLevel(rs) == LET idx == {i \in 1..Len(rs) : rs[i].genius_level # None}
                     IN  IF rs[1].genius_level # None \/ idx = {}
                         THEN rs[1].genius_level ELSE rs[SetMin(idx)].genius_level
      FirstCountry(rs) == LET idx == {i \in 1..Len(rs) : rs[i].country # None}
                       IN  IF rs[1].country # None \/ idx = {}
                           THEN rs[1].country ELSE rs[SetMin(idx)].country
  IN  [k \in 1..Len(firsts) |->
         LET rs == Of(rows[firsts[k]].user)
         IN  [user |-> rs[1].user,
              genius_level |-> FirstLevel(rs),
              country |-> FirstCountry(rs),
              start_weight |-> OrZero(rs[1].weight_factor),
              end_weight |-> OrZero(rs[Len(rs)].weight_factor)]]

\* weight_change and weight_change_percent of one entry
WeightChangeEntry(entry) ==
  LET weight_change == entry.end_weight - entry.start_weight
  IN  [user |-> entry.user, genius_level |-> entry.genius_level,
       country |-> entry.country,
       start_weight |-> entry.start_weight, end_weight |-> entry.end_weight,
       weight_change |-> weight_change,
       weight_change_percent |->
         IF entry.start_weight # 0
         THEN Some(Ratio(weight_change * 100, entry.start_weight))
         ELSE None]

\* A percentile that divides by total instead of total - 1.
PercentileOverTotal(idx, total) ==
  IF total <= 1 THEN 10000
  ELSE RoundHalfEven((total - idx + 1) * 10000, total)

\* round((1 - (idx - 1) / (total - 1)) * 100, 2) in hundredths of a point,
\* 100.0 when total <= 1.
Percentile(idx, total) ==
  IF total <= 1 THEN 10000
  ELSE RoundHalfEven((total - idx) * 10000, total - 1)

\* A baseline that is the start of the range also for a single day.
BaselineStartUnshifted(start, end) == start

\* baseline_start: the day before a range of a single day, else its start.
BaselineStart(start, end) == IF start = end THEN start - 1 ELSE start

\* get_genius_user_weight_changes
GeniusUserWeightChanges(cu, gu, genius_levels, countries, start_date, end_date, order) ==
  LET range == ResolveDateRange(gu, start_date, end_date)
  IN  IF range.start = None \/ range.end = None THEN <<>>
      ELSE
        LET start == Val(range.start)
            end == Val(range.end)
            baseline_start == BaselineStart(start, end)
            rows == ByUserThenDate(
                      GeniusWeightRows(cu, gu, baseline_start, end, genius_levels, countries))
            entries == UserMapEntries(rows)
            results == [i \in 1..Len(entries) |-> WeightChangeEntry(entries[i])]
            sorted == StableSort(results, "weight_change", order # "asc")
            total == Len(sorted)
        IN  [idx \in 1..total |->
               [user |-> sorted[idx].user,
                genius_level |-> sorted[idx].genius_level,
                country |-> sorted[idx].country,
                start_weight |-> sorted[idx].start_weight,
                end_weight |-> sorted[idx].end_weight,
                weight_change |-> sorted[idx].weight_change,
                weight_change_percent |-> sorted[idx].weight_change_percent,
                rank |-> idx,
                percentile |-> Percentile(idx, total)]]

GetGeniusUserWeightChanges ==
  /\ request.op = "genius_user_weight_changes"
  /\ response = Pending
  /\ response' = [op |-> request.op,
                  body |-> GeniusUserWeightChanges(consultantUser, geniusUser,
                             request.genius_levels, request.countries,
                             request.start_date, request.end_date, request.order)]
  /\ UNCHANGED <<tables, request, delivered, fetched>>

-----------------------------------------------------------------------------
(* Weight rankings: get_country_leaderboard, get_user_leaderboard,
   get_genius_level_weight_changes and the dashboard's
   get_top_users_by_weight_change *)

\* The value of the ORDER BY column of a row.
OrderKey(row, column) ==
  IF column = "weight_factor" THEN Val(row.weight_factor) ELSE row.weight_change

\* ORDER BY column [DESC]: the orders in which the database may deliver the
\* rows.  Rows of equal key come in any order.
OrderedBy(rows, column, descending) ==
  {ord \in Orders(rows) :
     \A i \in 1..(Len(ord) - 1) :
       IF descending THEN OrderKey(ord[i], column) >= OrderKey(ord[i + 1], column)
                     ELSE OrderKey(ord[i], column) <= OrderKey(ord[i + 1], column)}

\* The percentage 100.0 as a fraction.
FullGrowth == [num |-> 100, den |-> 1]

\* The live rows of a table on date d (None: no date) with a weight_factor.
WeightedOn(table, d) ==
  {r \in table : /\ ~r.delete_flag
                 /\ d # None
                 /\ r.record_date = Val(d)
                 /\ r.weight_factor # None}

\* The loop body of get_country_leaderboard: weight_change and
\* weight_change_percent attached to one row of the latest date.
CountryChange(cc, row, start_date) ==
  LET historical == {h \in WeightedOn(cc, Some(start_date)) :
                       row.country # None /\ h.country = row.country}
      current == Val(row.weight_factor)
  IN  IF historical # {}
      THEN LET hist == Val((CHOOSE h \in historical : TRUE).weight_factor)
           IN  [country |-> row.country, record_date |-> row.record_date,
                weight_factor |-> current,
                weight_change |-> current - hist,
                weight_change_percent |->
                  IF hist # 0 THEN Ratio((current - hist) * 100, hist) ELSE FullGrowth]
      ELSE [country |-> row.country, record_date |-> row.record_date,
            weight_factor |-> current,
            weight_change |-> current,
            weight_change_percent |-> FullGrowth]

\* get_country_leaderboard: one request.  The database delivers the first
\* limit rows of the latest date by weight_factor, highest first.
GetCountryLeaderboard ==
  /\ request.op = "country_leaderboard"
  /\ response = Pending
  /\ LET latest_date == LatestDate(consultantCountry)
     IN  IF latest_date = None
         THEN /\ delivered' = NoRows
              /\ response' = [op |-> request.op, body |-> <<>>]
         ELSE \E ord \in OrderedBy(WeightedOn(consultantCountry, latest_date),
                                   "weight_factor", TRUE) :
                LET results == Slice(ord, 0, request.limit)
                    start_date == Val(latest_date) - request.days
                IN  /\ delivered' = results
                    /\ response' =
                         [op |-> request.op,
                          body |-> [i \in 1..Len(results) |->
                                      CountryChange(consultantCountry, results[i],
                                                    start_date)]]
  /\ UNCHANGED <<tables, request, fetched>>

\* A weight_change expression that turns a missing baseline into no change.
WeightChangeExprZeroWithoutBaseline(current_weight, historical_weight) ==
  IF historical_weight = None THEN 0 ELSE current_weight - Val(historical_weight)

\* weight_change_expr: coalesce(current_weight - historical_weight, current_weight)
WeightChangeExpr(current_weight, historical_weight) ==
  IF historical_weight = None THEN current_weight
  ELSE current_weight - Val(historical_weight)

\* weight_change_percent_expr of get_user_leaderboard
WeightChangePercentExpr(current_weight, historical_weight) ==
  IF historical_weight # None
  THEN IF Val(historical_weight) # 0
       THEN Ratio((current_weight - Val(historical_weight)) * 100, Val(historical_weight))
       ELSE FullGrowth
  ELSE FullGrowth

\* current_subq LEFT OUTER JOIN historical_subq ON user, with the selected
\* weight_change column; start_date is None when no comparison date exists.
WeightChangeRows(cu, latest_date, start_date) ==
  LET historical == WeightedOn(cu, start_date)
      Joined(c) ==
        LET matches == {h \in historical : h.user = c.user}
        IN  IF matches = {} THEN {None} ELSE {h.weight_factor : h \in matches}
  IN  UNION {{[user |-> c.user, country |-> c.country, university |-> c.university,
               current_weight |-> Val(c.weight_factor),
               historical_weight |-> h,
               weight_change |-> WeightChangeExpr(Val(c.weight_factor), h)]
                : h \in Joined(c)}
               : c \in WeightedOn(cu, Some(latest_date))}

\* get_user_leaderboard: one request.
GetUserLeaderboard ==
  /\ request.op = "user_leaderboard"
  /\ response = Pending
  /\ LET latest_date == LatestDate(consultantUser)
     IN  IF latest_date = None
         THEN /\ delivered' = NoRows
              /\ response' = [op |-> request.op, body |-> <<>>]
         ELSE \E ord \in OrderedBy(
                           WeightChangeRows(consultantUser, Val(latest_date),
                                            Some(Val(latest_date) - request.days)),
                           "weight_change", request.order = "desc") :
                LET results == Slice(ord, 0, request.limit)
                IN  /\ delivered' = results
                    /\ response' =
                         [op |-> request.op,
                          body |-> [i \in 1..Len(results) |->
                                      [user |-> results[i].user,
                                       country |-> results[i].country,
                                       weight_factor |-> results[i].current_weight,
                                       weight_change |-> results[i].weight_change,
                                       weight_change_percent |->
                                         WeightChangePercentExpr(
                                           results[i].current_weight,
                                           results[i].historical_weight),
                                       record_date |-> Val(latest_date)]]]
  /\ UNCHANGED <<tables, request, fetched>>

\* standard_levels, in the order sorted() gives the level names.
StandardLevels == <<"EXPERT", "GOLD", "GRANDMASTER", "MASTER">>

\* func.sum(func.coalesce(weight_factor, 0)) over a set of rows
SumOfWeights(rows) ==
  LET RECURSIVE Sum(_)
      Sum(S) == IF S = {} THEN 0
                ELSE LET r == CHOOSE x \in S : TRUE
                     IN  OrZero(r.weight_factor) + Sum(S \ {r})
  IN  Sum(rows)

\* One entry of get_genius_level_weight_changes: a percentage in hundredths
\* of a point, weights rounded to two decimals.
LevelChangeEntry(level, total_users, current_weight, historical_weight) ==
  LET change == IF historical_weight # 0 THEN current_weight - historical_weight
                ELSE current_weight
      percent == IF historical_weight # 0
                 THEN LET q == Ratio(change * 10000, historical_weight)
                      IN  RoundHalfEven(q.num, q.den)
                 ELSE IF current_weight # 0 THEN 10000 ELSE 0
  IN  [genius_level |-> level,
       total_users |-> total_users,
       total_weight |-> Round2(current_weight),
       weight_change |-> Round2(change),
       weight_change_percent |-> percent]

\* get_genius_level_weight_changes
GeniusLevelWeightChanges(cu, gu, days) ==
  IF LatestDate(cu) = None THEN <<>>
  ELSE
    LET latest_date == Val(LatestDate(cu))
        start_date == latest_date - days
        level_users ==
          {<<Val(g.user), Val(g.genius_level)>> :
             g \in {x \in gu : /\ ~x.delete_flag
                               /\ x.record_date = latest_date
                               /\ x.genius_level # None
                               /\ Val(x.genius_level) \in Range(StandardLevels)
                               /\ x.user # None}}
        RowsOf(level, d) ==
          {r \in cu : /\ ~r.delete_flag
                      /\ r.record_date = d
                      /\ <<r.user, level>> \in level_users}
        current_levels == {l \in Range(StandardLevels) : RowsOf(l, latest_date) # {}}
        historical_levels == {l \in Range(StandardLevels) : RowsOf(l, start_date) # {}}
        levels == SelectSeq(StandardLevels,
                            LAMBDA l : l \in current_levels \cup historical_levels)
        results ==
          [i \in 1..Len(levels) |->
             LET level == levels[i]
             IN  LevelChangeEntry(
                   level,
                   Cardinality({r.user : r \in RowsOf(level, latest_date)}),
                   SumOfWeights(RowsOf(level, latest_date)),
                   SumOfWeights(RowsOf(level, start_date)))]
    IN  StableSort(results, "total_weight", TRUE)

GetGeniusLevelWeightChanges ==
  /\ request.op = "genius_level_weight_changes"
  /\ response = Pending
  /\ response' = [op |-> request.op,
                  body |-> GeniusLevelWeightChanges(consultantUser, geniusUser,
                                                    request.days)]
  /\ UNCHANGED <<tables, request, delivered, fetched>>

\* The leap years of the proleptic Gregorian calendar of datetime.
IsLeap(year) == year % 4 = 0 /\ (year % 100 # 0 \/ year % 400 = 0)

\* The number of days of the years 1 .. year - 1.
DaysBeforeYear(year) ==
  LET y == year - 1
  IN  y * 365 + (y \div 4) - (y \div 100) + (y \div 400)

\* Days are counted from 2026-02-00: day d is 2026-02-d.  The number of the
\* first day of month m (1..12) of a year.
FirstOfMonth(year, m) ==
  LET before == <<0, 31, 59, 90, 120, 151, 181, 212, 243, 273, 304, 334>>
  IN  DaysBeforeYear(year) - DaysBeforeYear(2026) + before[m]
        + (IF IsLeap(year) /\ m > 2 THEN 1 ELSE 0) - 30

\* A quarter string is "" (none given), a string "YYYY-Qn" of the pattern,
\* kept as its year and quarter number, or a string the pattern rejects.
NoQuarter == [given |-> FALSE, matches |-> FALSE]

QuarterString(year, q) == [given |-> TRUE, matches |-> TRUE, year |-> year, quarter |-> q]

MalformedQuarter == [given |-> TRUE, matches |-> FALSE]

\* The last day of the quarter ending with end_month.
QuarterEndDay(year, end_month) ==
  IF end_month = 12 THEN FirstOfMonth(year, 12) + 30
  ELSE FirstOfMonth(year, end_month + 1) - 1

\* parse_quarter: (quarter_start, quarter_end), (None, None) when not parsed
ParseQuarter(quarter_str) ==
  IF ~quarter_str.given \/ ~quarter_str.matches THEN <<None, None>>
  ELSE LET start_month == (quarter_str.quarter - 1) * 3 + 1
           end_month == quarter_str.quarter * 3
       IN  <<Some(FirstOfMonth(quarter_str.year, start_month)),
             Some(QuarterEndDay(quarter_str.year, end_month))>>

\* get_previous_quarter_end
GetPreviousQuarterEnd(quarter_str) ==
  IF ~quarter_str.matches THEN None
  ELSE LET prev_year == IF quarter_str.quarter = 1 THEN quarter_str.year - 1
                        ELSE quarter_str.year
           prev_quarter == IF quarter_str.quarter = 1 THEN 4
                           ELSE quarter_str.quarter - 1
       IN  Some(QuarterEndDay(prev_year, prev_quarter * 3))

\* The latest live date whatever the bound d.
LatestDateUnbounded(table, d) == LatestDate(table)

\* func.max(record_date) over the live rows dated no later than d
LatestDateUpTo(table, d) ==
  LatestDate({r \in table : r.record_date <= d})

\* The latest_date and start_date get_top_users_by_weight_change resolves.
ComparisonDates(cu, quarter) ==
  LET quarter_end == ParseQuarter(quarter)[2]
      latest_date == IF quarter_end = None THEN LatestDate(cu)
                     ELSE LatestDateUpTo(cu, Val(quarter_end))
      compare_date == GetPreviousQuarterEnd(quarter)
      start_date == IF latest_date = None THEN None
                    ELSE IF quarter.given
                    THEN IF compare_date # None
                         THEN LatestDateUpTo(cu, Val(compare_date))
                         ELSE None
                    ELSE Some(Val(latest_date) - 1)
  IN  [latest_date |-> latest_date, start_date |-> start_date]

\* The joined rows of get_top_users_by_weight_change after the country filter.
TopWeightChangeRows(cu, dates, country) ==
  {r \in WeightChangeRows(cu, Val(dates.latest_date), dates.start_date) :
     country = None \/ r.country = country}

\* One output row of get_top_users_by_weight_change.
TopWeightChangeItem(row, idx) ==
  [rank |-> idx, user |-> row.user,
   current_weight |-> Round2(row.current_weight),
   weight_change |-> Round2(row.weight_change),
   country |-> row.country, university |-> row.university]

\* get_top_users_by_weight_change on the rows the database delivers as ord,
\* the query's ORDER BY applied: LIMIT page_size OFFSET (page - 1) * page_size.
TopUsersByWeightChange(ord, page, page_size) ==
  LET offset == (page - 1) * page_size
      results == Slice(ord, offset, offset + page_size)
  IN  [total |-> Len(ord),
       items |-> [i \in 1..Len(results) |-> TopWeightChangeItem(results[i], offset + i)]]

GetTopUsersByWeightChange ==
  /\ request.op = "top_users_by_weight_change"
  /\ response = Pending
  /\ LET dates == ComparisonDates(consultantUser, request.quarter)
     IN  IF dates.latest_date = None
         THEN /\ delivered' = NoRows
              /\ response' = [op |-> request.op, body |-> [total |-> 0, items |-> <<>>]]
         ELSE \E ord \in OrderedBy(TopWeightChangeRows(consultantUser, dates,
                                                       request.country),
                                   "weight_change", request.order = "desc") :
                /\ delivered' = ord
                /\ response' = [op |-> request.op,
                                body |-> TopUsersByWeightChange(ord, request.page,
                                                                request.page_size)]
  /\ UNCHANGED <<tables, request, fetched>>

\* The rows get_top_users_by_weight ranks: the weighted rows of the latest
\* date, of the requested country when one is given.
TopWeightRows(cu, latest_date, country) ==
  {r \in WeightedOn(cu, latest_date) : country = None \/ r.country = country}

\* round(float(value_factor or 0), 2) if value_factor else None
RoundedValueFactor(vf) ==
  IF vf = None \/ vf = Some(0) THEN None ELSE Some(Round4(Val(vf)))

\* One output row of get_top_users_by_weight.
TopWeightItem(row, idx) ==
  [rank |-> idx, user |-> row.user,
   weight_factor |-> Round2(Val(row.weight_factor)),
   value_factor |-> RoundedValueFactor(row.value_factor),
   total_submissions |-> OrZero(row.submissions_count)
                           + OrZero(row.super_alpha_submissions_count),
   country |-> row.country, university |-> row.university]

\* get_top_users_by_weight on the rows the database delivers as ord.
TopUsersByWeight(ord, page, page_size) ==
  LET offset == (page - 1) * page_size
      results == Slice(ord, offset, offset + page_size)
  IN  [total |-> Len(ord),
       items |-> [i \in 1..Len(results) |-> TopWeightItem(results[i], offset + i)]]

-----------------------------------------------------------------------------
(* A client that reads a ranking page by page: page 1, then every further
   page up to ceil(total / page_size), one request each.  Every request runs
   its handler anew on the unchanged store. *)

UsersOf(items) == [i \in 1..Len(items) |-> items[i].user]

\* The client has a page still to ask for.
MorePages ==
  IF response = Pending THEN TRUE
  ELSE Len(fetched) * request.page_size < response.body.total

NextValueFactorPage ==
  /\ request.op = "value_factor_user_changes"
  /\ MorePages
  /\ \E ord \in Orders(ValueFactorUserRows(consultantUser, geniusUser)) :
       LET body == ValueFactorUserChanges(ord, request.sort_by, request.sort_order,
                     Len(fetched) + 1, request.page_size, request.countries,
                     request.genius_levels, request.exclude_both_half)
       IN  /\ delivered' = ord
           /\ response' = [op |-> request.op, body |-> body]
           /\ fetched' = Append(fetched, UsersOf(body.items))
  /\ UNCHANGED <<tables, request>>

NextCombinedPage ==
  /\ request.op = "combined_user_changes"
  /\ MorePages
  /\ \E ord \in Orders(CombinedUserRows(geniusUser)) :
       LET body == CombinedUserChanges(ord, request.sort_by, request.sort_order,
                     Len(fetched) + 1, request.page_size, request.countries,
                     request.genius_levels, request.exclude_alpha_both_zero,
                     request.exclude_power_pool_both_zero,
                     request.exclude_selected_both_zero)
       IN  /\ delivered' = ord
           /\ response' = [op |-> request.op, body |-> body]
           /\ fetched' = Append(fetched, UsersOf(body.items))
  /\ UNCHANGED <<tables, request>>

NextTopWeightPage ==
  /\ request.op = "top_users_by_weight"
  /\ MorePages
  /\ \E ord \in OrderedBy(TopWeightRows(consultantUser, LatestDate(consultantUser),
                                        request.country),
                          "weight_factor", TRUE) :
       LET body == TopUsersByWeight(ord, Len(fetched) + 1, request.page_size)
       IN  /\ delivered' = ord
           /\ response' = [op |-> request.op, body |-> body]
           /\ fetched' = Append(fetched, UsersOf(body.items))
  /\ UNCHANGED <<tables, request>>

NextTopWeightChangePage ==
  /\ request.op = "top_users_by_weight_change"
  /\ MorePages
  /\ LET dates == ComparisonDates(consultantUser, request.quarter)
         rows == IF dates.latest_date = None THEN {}
                 ELSE TopWeightChangeRows(consultantUser, dates, request.country)
     IN  \E ord \in OrderedBy(rows, "weight_change", request.order = "desc") :
           LET body == TopUsersByWeightChange(ord, Len(fetched) + 1, request.page_size)
           IN  /\ delivered' = ord
               /\ response' = [op |-> request.op, body |-> body]
               /\ fetched' = Append(fetched, UsersOf(body.items))
  /\ UNCHANGED <<tables, request>>

-----------------------------------------------------------------------------
(* Stores and requests of the comparison operations *)

\* The stores of n users over the given profiles.  The comparison operations
\* read no user id and receive the rows in any order, so stores are taken up
\* to a renaming of the users: user 1 has the earliest profile of the list.
Assignments(profiles, n) ==
  {[u \in 1..n |-> profiles[ix[u]]] :
     ix \in {f \in [1..n -> 1..Len(profiles)] : \A i \in 1..(n - 1) : f[i] <= f[i + 1]}}

\* What one user has on the base and the target date of the value-factor
\* comparison: value_factor on each date (None: no row), the country and
\* university of its consultant rows and the level of its genius rows.
VFProfile(b, t, c, uni, l) ==
  [base |-> b, target |-> t, country |-> c, university |-> uni, level |-> l]

VFComparableProfiles ==
  << VFProfile(Some(Half), Some(Half), Some("CN"), Some("THU"), Some("GOLD")),
    VFProfile(Some(30000), Some(50004), Some("US"), None, Some("GOLD")),
    VFProfile(Some(50004), Some(30000), None, Some("MIT"), Some("EXPERT")) >>

VFCohortProfiles ==
  << VFProfile(None, Some(30000), Some("CN"), Some("THU"), Some("GOLD")),
    VFProfile(Some(30000), None, Some("US"), Some("MIT"), None),
    VFProfile(Some(Half), Some(Half), Some("CN"), Some("THU"), Some("GOLD")),
    VFProfile(Some(30000), Some(50004), Some("US"), None, None),
    VFProfile(Some(Half), Some(30000), None, Some("MIT"), Some("EXPERT")) >>

\* The rows of leaderboard_consultant_user a profile assignment stands for.
VFConsultantRows(prof) ==
  {ConsultantUserRow(u, VALUE_FACTOR_BASE_DATE, None, prof[u].base,
                     prof[u].country, prof[u].university, None, None)
     : u \in {x \in DOMAIN prof : prof[x].base # None}}
  \cup
  {ConsultantUserRow(u, VALUE_FACTOR_TARGET_DATE, None, prof[u].target,
                     prof[u].country, prof[u].university, None, None)
     : u \in {x \in DOMAIN prof : prof[x].target # None}}

VFGeniusRows(prof) ==
  {GeniusUserRow(Some(u), VALUE_FACTOR_TARGET_DATE, prof[u].level, None, None, None, None)
     : u \in {x \in DOMAIN prof : prof[x].level # None}}

\* What one user has in leaderboard_genius_user on the base and the target
\* date of the combined comparison: None (no row) or the three performance
\* figures <<alpha, power_pool, selected>>, each of which may be NULL.
CombinedProfile(b, t, c, l) == [base |-> b, target |-> t, country |-> c, level |-> l]

Figures(a, pp, sel) == Some(<<a, pp, sel>>)

CombinedComparableProfiles ==
  << CombinedProfile(Figures(Some(0), Some(0), Some(0)),
                    Figures(Some(0), Some(0), Some(0)), Some("CN"), Some("GOLD")),
    CombinedProfile(Figures(Some(0), Some(20000), Some(10000)),
                    Figures(Some(0), Some(30004), Some(10000)), Some("US"), None),
    CombinedProfile(Figures(Some(10000), Some(10000), Some(0)),
                    Figures(Some(30000), Some(10000), Some(0)), None, Some("EXPERT")) >>

CombinedCohortProfiles ==
  << CombinedProfile(None, Figures(Some(10000), Some(10000), Some(10000)),
                    Some("CN"), Some("GOLD")),
    CombinedProfile(Figures(Some(10000), Some(0), Some(0)),
                    Figures(None, Some(0), Some(0)), Some("US"), None),
    CombinedProfile(Figures(None, None, None), None, Some("CN"), None),
    CombinedProfile(Figures(Some(0), Some(0), Some(0)),
                    Figures(Some(0), Some(0), Some(0)), Some("CN"), Some("GOLD")),
    CombinedProfile(Figures(Some(0), Some(30004), Some(0)),
                    Figures(Some(0), Some(20000), Some(10000)), Some("US"), None) >>

CombinedGeniusRows(prof) ==
  {GeniusUserRow(Some(u), COMBINED_BASE_DATE, prof[u].level, prof[u].country,
                 Val(prof[u].base)[1], Val(prof[u].base)[2], Val(prof[u].base)[3])
     : u \in {x \in DOMAIN prof : prof[x].base # None}}
  \cup
  {GeniusUserRow(Some(u), COMBINED_TARGET_DATE, prof[u].level, prof[u].country,
                 Val(prof[u].target)[1], Val(prof[u].target)[2], Val(prof[u].target)[3])
     : u \in {x \in DOMAIN prof : prof[x].target # None}}

SortOrders == {"asc", "desc"}

\* sort_by values of the requests: valid keys and one unknown key.
ValueFactorSortBys == {"change", "base_value_factor", "user"}

CombinedSortBys == {"alpha_change", "target_selected", "user"}

NoValueFactorFilter == [countries |-> {}, genius_levels |-> {}, exclude_both_half |-> FALSE]

ValueFactorFilters ==
  { NoValueFactorFilter,
    [countries |-> {"CN"}, genius_levels |-> {}, exclude_both_half |-> FALSE],
    [countries |-> {}, genius_levels |-> {"GOLD"}, exclude_both_half |-> FALSE],
    [countries |-> {}, genius_levels |-> {}, exclude_both_half |-> TRUE] }

CombinedFlags(a, pp, sel) ==
  [exclude_alpha_both_zero |-> a, exclude_power_pool_both_zero |-> pp,
   exclude_selected_both_zero |-> sel]

NoCombinedFilter ==
  [countries |-> {}, genius_levels |-> {}, flags |-> CombinedFlags(FALSE, FALSE, FALSE)]

CombinedFilters ==
  { NoCombinedFilter,
    [countries |-> {"CN"}, genius_levels |-> {}, flags |-> CombinedFlags(FALSE, FALSE, FALSE)],
    [countries |-> {}, genius_levels |-> {"GOLD"},
     flags |-> CombinedFlags(FALSE, FALSE, FALSE)],
    [countries |-> {}, genius_levels |-> {}, flags |-> CombinedFlags(TRUE, FALSE, FALSE)] }

CombinedCohortFilters ==
  { [countries |-> {}, genius_levels |-> {}, flags |-> CombinedFlags(FALSE, FALSE, FALSE)],
    [countries |-> {"CN"}, genius_levels |-> {}, flags |-> CombinedFlags(FALSE, FALSE, FALSE)],
    [countries |-> {}, genius_levels |-> {}, flags |-> CombinedFlags(TRUE, FALSE, FALSE)],
    [countries |-> {}, genius_levels |-> {}, flags |-> CombinedFlags(FALSE, TRUE, FALSE)],
    [countries |-> {}, genius_levels |-> {}, flags |-> CombinedFlags(FALSE, FALSE, TRUE)] }

ValueFactorUserChangesRequest(sort_by, sort_order, page, page_size, f) ==
  [op |-> "value_factor_user_changes", sort_by |-> sort_by, sort_order |-> sort_order,
   page |-> page, page_size |-> page_size, countries |-> f.countries,
   genius_levels |-> f.genius_levels, exclude_both_half |-> f.exclude_both_half]

CombinedUserChangesRequest(sort_by, sort_order, page, page_size, f) ==
  [op |-> "combined_user_changes", sort_by |-> sort_by, sort_order |-> sort_order,
   page |-> page, page_size |-> page_size, countries |-> f.countries,
   genius_levels |-> f.genius_levels,
   exclude_alpha_both_zero |-> f.flags.exclude_alpha_both_zero,
   exclude_power_pool_both_zero |-> f.flags.exclude_power_pool_both_zero,
   exclude_selected_both_zero |-> f.flags.exclude_selected_both_zero]

CombinedAnalysisRequest(f) ==
  [op |-> "combined_analysis", countries |-> f.countries,
   genius_levels |-> f.genius_levels,
   exclude_alpha_both_zero |-> f.flags.exclude_alpha_both_zero,
   exclude_power_pool_both_zero |-> f.flags.exclude_power_pool_both_zero,
   exclude_selected_both_zero |-> f.flags.exclude_selected_both_zero]

ValueFactorAnalysisRequest(exclude_both_half) ==
  [op |-> "value_factor_analysis", exclude_both_half |-> exclude_both_half]

\* A request has arrived and no handler has run yet.
Arrived(req) ==
  /\ request = req
  /\ delivered = NoRows
  /\ response = Pending
  /\ fetched = <<>>

InitValueFactorChanges ==
  /\ \E n \in 0..MaxUsers : \E prof \in Assignments(VFComparableProfiles, n) :
       /\ consultantUser = VFConsultantRows(prof)
       /\ geniusUser = VFGeniusRows(prof)
  /\ consultantCountry = {}
  /\ geniusCountry = {}
  /\ consultantUniversity = {}
  /\ eventUpdateRecord = {}
  /\ redis = <<>>
  /\ \/ \E sort_by \in ValueFactorSortBys, sort_order \in SortOrders,
           page \in 1..MaxPage, page_size \in 1..MaxPageSize :
          Arrived(ValueFactorUserChangesRequest(sort_by, sort_order, page, page_size,
                                                NoValueFactorFilter))
     \/ \E f \in ValueFactorFilters, page \in 1..MaxPage :
          Arrived(ValueFactorUserChangesRequest("change", "desc", page, MaxPageSize, f))

InitCombinedChanges ==
  /\ \E n \in 0..MaxUsers : \E prof \in Assignments(CombinedComparableProfiles, n) :
       geniusUser = CombinedGeniusRows(prof)
  /\ consultantUser = {}
  /\ consultantCountry = {}
  /\ geniusCountry = {}
  /\ consultantUniversity = {}
  /\ eventUpdateRecord = {}
  /\ redis = <<>>
  /\ \/ \E sort_by \in CombinedSortBys, sort_order \in SortOrders,
           page \in 1..MaxPage, page_size \in 1..MaxPageSize :
          Arrived(CombinedUserChangesRequest(sort_by, sort_order, page, page_size,
                                             NoCombinedFilter))
     \/ \E f \in CombinedFilters, page \in 1..MaxPage :
          Arrived(CombinedUserChangesRequest("alpha_change", "desc", page, MaxPageSize, f))

InitValueFactorCohort ==
  /\ \E n \in 0..MaxUsers : \E prof \in Assignments(VFCohortProfiles, n) :
       /\ consultantUser = VFConsultantRows(prof)
       /\ geniusUser = VFGeniusRows(prof)
  /\ consultantCountry = {}
  /\ geniusCountry = {}
  /\ consultantUniversity = {}
  /\ eventUpdateRecord = {}
  /\ redis = <<>>
  /\ \/ \E x \in BOOLEAN : Arrived(ValueFactorAnalysisRequest(x))
     \/ \E f \in ValueFactorFilters, page \in 1..2 :
          Arrived(ValueFactorUserChangesRequest("change", "desc", page, MaxPageSize, f))

InitCombinedCohort ==
  /\ \E n \in 0..MaxUsers : \E prof \in Assignments(CombinedCohortProfiles, n) :
       geniusUser = CombinedGeniusRows(prof)
  /\ consultantUser = {}
  /\ consultantCountry = {}
  /\ geniusCountry = {}
  /\ consultantUniversity = {}
  /\ eventUpdateRecord = {}
  /\ redis = <<>>
  /\ \E f \in CombinedCohortFilters :
       \/ Arrived(CombinedAnalysisRequest(f))
       \/ \E page \in 1..2 :
            Arrived(CombinedUserChangesRequest("alpha_change", "desc", page, MaxPageSize, f))

\* What one user has in the weight history: on each listed day a genius row
\* (level, country) and a consultant row carrying weight_factor (None: NULL).
WeightProfile(days, c, l) == [days |-> days, country |-> c, level |-> l]

Day(d, w) == [date |-> d, weight |-> w]

WeightProfiles ==
  { WeightProfile({Day(10, Some(0)), Day(11, Some(5000))}, Some("CN"), Some("GOLD")),
    WeightProfile({Day(-40, Some(60000)), Day(10, Some(80000)), Day(11, Some(100004))},
                  Some("US"), Some("GOLD")),
    WeightProfile({Day(11, Some(100004))}, Some("CN"), None),
    WeightProfile({Day(9, Some(100004)), Day(10, None), Day(11, Some(80000))},
                  None, Some("EXPERT")) }

WeightConsultantRows(prof) ==
  UNION {{ConsultantUserRow(u, d.date, d.weight, None, prof[u].country, None, None, None)
            : d \in prof[u].days} : u \in DOMAIN prof}

WeightGeniusRows(prof) ==
  UNION {{GeniusUserRow(Some(u), d.date, prof[u].level, None, None, None, None)
            : d \in prof[u].days} : u \in DOMAIN prof}

DateRanges ==
  { <<None, None>>, <<Some(10), Some(11)>>, <<Some(11), Some(11)>>,
    <<Some(9), None>>, <<None, Some(10)>>, <<Some(11), Some(10)>> }

WeightFilters ==
  { [countries |-> {}, genius_levels |-> {}],
    [countries |-> {"CN"}, genius_levels |-> {}],
    [countries |-> {}, genius_levels |-> {"GOLD"}] }

GeniusUserWeightChangesRequest(f, range, order) ==
  [op |-> "genius_user_weight_changes", genius_levels |-> f.genius_levels,
   countries |-> f.countries, start_date |-> range[1], end_date |-> range[2],
   order |-> order]

InitWeightHistory ==
  /\ \E n \in 0..MaxUsers : \E prof \in [1..n -> WeightProfiles] :
       /\ consultantUser = WeightConsultantRows(prof)
       /\ geniusUser = WeightGeniusRows(prof)
  /\ consultantCountry = {}
  /\ geniusCountry = {}
  /\ consultantUniversity = {}
  /\ eventUpdateRecord = {}
  /\ redis = <<>>

InitGeniusChanges ==
  /\ InitWeightHistory
  /\ \E f \in WeightFilters, range \in DateRanges, order \in SortOrders :
       Arrived(GeniusUserWeightChangesRequest(f, range, order))

\* The country table: the first n countries, each with the weight history of
\* some profile.
MaxCountries == 2

CountryNames == <<"CN", "US", "JP">>

WeightCountryRows(prof) ==
  UNION {{ConsultantCountryRow(Some(CountryNames[i]), d.date, d.weight) : d \in prof[i]}
           : i \in DOMAIN prof}

\* The days parameter of the requests: look back one day or two.
Lookbacks == {1, 2}

Quarters == {NoQuarter, QuarterString(2026, 1), MalformedQuarter}

CountryLeaderboardRequest(limit, days) ==
  [op |-> "country_leaderboard", limit |-> limit, days |-> days]

UserLeaderboardRequest(limit, days, order) ==
  [op |-> "user_leaderboard", limit |-> limit, days |-> days, order |-> order]

GeniusLevelWeightChangesRequest(days) ==
  [op |-> "genius_level_weight_changes", days |-> days]

TopUsersByWeightChangeRequest(page, page_size, quarter, order, country) ==
  [op |-> "top_users_by_weight_change", page |-> page, page_size |-> page_size,
   quarter |-> quarter, order |-> order, country |-> country]

InitCountryBoard ==
  /\ \E n \in 0..MaxCountries :
       \E prof \in [1..n -> {p.days : p \in WeightProfiles}] :
         consultantCountry = WeightCountryRows(prof)
  /\ geniusCountry = {}
  /\ consultantUniversity = {}
  /\ eventUpdateRecord = {}
  /\ redis = <<>>
  /\ consultantUser = {}
  /\ geniusUser = {}
  /\ \E limit \in 1..MaxLimit, days \in Lookbacks :
       Arrived(CountryLeaderboardRequest(limit, days))

InitUserWeights ==
  /\ InitWeightHistory
  /\ \/ \E limit \in 1..MaxLimit, days \in Lookbacks, order \in SortOrders :
          Arrived(UserLeaderboardRequest(limit, days, order))
     \/ \E days \in Lookbacks : Arrived(GeniusLevelWeightChangesRequest(days))
     \/ \E range \in DateRanges :
          Arrived(GeniusUserWeightChangesRequest(
                    [countries |-> {}, genius_levels |-> {}], range, "desc"))
     \/ \E page \in 1..2, page_size \in 1..MaxPageSize, quarter \in Quarters,
           order \in SortOrders, country \in {None, Some("CN")} :
          Arrived(TopUsersByWeightChangeRequest(page, page_size, quarter, order, country))

InitWeights == InitCountryBoard \/ InitUserWeights

NextWeights ==
  \/ GetCountryLeaderboard
  \/ GetUserLeaderboard
  \/ GetGeniusUserWeightChanges
  \/ GetGeniusLevelWeightChanges
  \/ GetTopUsersByWeightChange

SpecWeights == InitWeights /\ [][NextWeights]_vars

\* The calls of _build_distribution: up to MaxLen subnormal doubles between
\* -MaxVal and MaxVal times 2^-1074, and up to MaxBins bins or the
\* DistributionBins of the two callers.
InitDistribution ==
  /\ consultantUser = {}
  /\ geniusUser = {}
  /\ consultantCountry = {}
  /\ geniusCountry = {}
  /\ consultantUniversity = {}
  /\ eventUpdateRecord = {}
  /\ redis = <<>>
  /\ \E n \in 0..MaxLen : \E values \in [1..n -> (-MaxVal)..MaxVal] :
       \E bins \in (1..MaxBins) \cup {DistributionBins} :
         Arrived([op |-> "build_distribution", values |-> values, bins |-> bins])

SpecDistribution == InitDistribution /\ [][ApplyBuildDistribution]_vars

\* The rankings a client pages through.
TopUsersByWeightRequest(page_size, country) ==
  [op |-> "top_users_by_weight", page_size |-> page_size, country |-> country]

InitPaging ==
  \/ /\ \E n \in 0..MaxUsers : \E prof \in Assignments(VFComparableProfiles, n) :
          /\ consultantUser = VFConsultantRows(prof)
          /\ geniusUser = VFGeniusRows(prof)
     /\ consultantCountry = {}
     /\ geniusCountry = {}
     /\ consultantUniversity = {}
     /\ eventUpdateRecord = {}
     /\ redis = <<>>
     /\ \E sort_order \in SortOrders, page_size \in 1..MaxPageSize :
          Arrived(ValueFactorUserChangesRequest("change", sort_order, 1, page_size,
                                                NoValueFactorFilter))
  \/ /\ \E n \in 0..MaxUsers : \E prof \in Assignments(CombinedComparableProfiles, n) :
          geniusUser = CombinedGeniusRows(prof)
     /\ consultantUser = {}
     /\ consultantCountry = {}
     /\ geniusCountry = {}
     /\ consultantUniversity = {}
     /\ eventUpdateRecord = {}
     /\ redis = <<>>
     /\ \E sort_order \in SortOrders, page_size \in 1..MaxPageSize :
          Arrived(CombinedUserChangesRequest("alpha_change", sort_order, 1, page_size,
                                             NoCombinedFilter))
  \/ /\ InitWeightHistory
     /\ \/ \E page_size \in 1..MaxPageSize, country \in {None, Some("CN")} :
             Arrived(TopUsersByWeightRequest(page_size, country))
        \/ \E page_size \in 1..MaxPageSize, order \in SortOrders :
             Arrived(TopUsersByWeightChangeRequest(1, page_size, NoQuarter, order, None))

NextPaging ==
  \/ NextValueFactorPage
  \/ NextCombinedPage
  \/ NextTopWeightPage
  \/ NextTopWeightChangePage

SpecPaging == InitPaging /\ [][NextPaging]_vars

InitChanges == InitValueFactorChanges \/ InitCombinedChanges \/ InitGeniusChanges

NextChanges ==
  \/ GetValueFactorUserChanges
  \/ GetCombinedUserChanges
  \/ GetGeniusUserWeightChanges

SpecChanges == InitChanges /\ [][NextChanges]_vars

InitCohort == InitValueFactorCohort \/ InitCombinedCohort

NextCohort ==
  \/ GetValueFactorAnalysis
  \/ GetCombinedAnalysis
  \/ GetValueFactorUserChanges
  \/ GetCombinedUserChanges

SpecCohort == InitCohort /\ [][NextCohort]_vars

-----------------------------------------------------------------------------
(* The store as the claims read it *)

Answered(op) == response # Pending /\ response.op = op

ValueFactorOps == {"value_factor_user_changes", "value_factor_analysis"}

CombinedOps == {"combined_user_changes", "combined_analysis"}

UserChangesOps == {"value_factor_user_changes", "combined_user_changes"}

AnalysisOps == {"value_factor_analysis", "combined_analysis"}

\* The value_factor of user u on date d, None when no live row carries one.
ValueFactorOn(u, d) ==
  LET rows == {r \in consultantUser :
                 ~r.delete_flag /\ r.user = u /\ r.record_date = d
                 /\ r.value_factor # None}
  IN  IF rows = {} THEN None ELSE (CHOOSE r \in rows : TRUE).value_factor

\* The live genius row of user u on date d, as a set (empty when absent).
GeniusRowsOn(u, d) ==
  {r \in geniusUser : ~r.delete_flag /\ r.user = Some(u) /\ r.record_date = d}

\* All three combined figures of user u are present on date d.
FiguresOn(u, d) ==
  \E r \in GeniusRowsOn(u, d) :
    /\ r.combined_alpha_performance # None
    /\ r.combined_power_pool_alpha_performance # None
    /\ r.combined_selected_alpha_performance # None

\* The users present in the base / target snapshot of the operation answered.
PresentOnBase ==
  IF response.op \in ValueFactorOps
  THEN {u \in Users : ValueFactorOn(u, VALUE_FACTOR_BASE_DATE) # None}
  ELSE {u \in Users : FiguresOn(u, COMBINED_BASE_DATE)}

PresentOnTarget ==
  IF response.op \in ValueFactorOps
  THEN {u \in Users : ValueFactorOn(u, VALUE_FACTOR_TARGET_DATE) # None}
  ELSE {u \in Users : FiguresOn(u, COMBINED_TARGET_DATE)}

ItemUsers(items) == {items[i].user : i \in 1..Len(items)}

RECURSIVE AscendingSeq(_)
AscendingSeq(S) ==
  IF S = {} THEN <<>> ELSE <<SetMin(S)>> \o AscendingSeq(S \ {SetMin(S)})

\* The figure named f ("alpha", "power_pool" or "selected") of user u on date d.
FigureOn(u, d, f) ==
  LET r == CHOOSE x \in GeniusRowsOn(u, d) : TRUE
  IN  CASE f = "alpha" -> Val(r.combined_alpha_performance)
        [] f = "power_pool" -> Val(r.combined_power_pool_alpha_performance)
        [] f = "selected" -> Val(r.combined_selected_alpha_performance)

\* The first non-NULL of the given columns of the given row sets.
FirstPresent(cands) ==
  LET present == {i \in 1..Len(cands) : cands[i] # {} /\ cands[i] # {None}}
  IN  IF present = {} THEN None
      ELSE CHOOSE x \in cands[SetMin(present)] : x # None

ConsultantRowsOn(u, d) ==
  {r \in consultantUser : ~r.delete_flag /\ r.user = u /\ r.record_date = d
                          /\ r.value_factor # None}

\* The country and level under which the operation answered files user u.
CountryOf(u) ==
  CASE response.op = "value_factor_user_changes" ->
         FirstPresent(<<{r.country : r \in GeniusRowsOn(u, VALUE_FACTOR_TARGET_DATE)},
                        {r.country : r \in GeniusRowsOn(u, VALUE_FACTOR_BASE_DATE)},
                        {r.country : r \in ConsultantRowsOn(u, VALUE_FACTOR_TARGET_DATE)},
                        {r.country : r \in ConsultantRowsOn(u, VALUE_FACTOR_BASE_DATE)}>>)
    [] response.op = "value_factor_analysis" ->
         FirstPresent(<<{r.country : r \in ConsultantRowsOn(u, VALUE_FACTOR_TARGET_DATE)},
                        {r.country : r \in ConsultantRowsOn(u, VALUE_FACTOR_BASE_DATE)}>>)
    [] OTHER ->
         FirstPresent(<<{r.country : r \in GeniusRowsOn(u, COMBINED_TARGET_DATE)},
                        {r.country : r \in GeniusRowsOn(u, COMBINED_BASE_DATE)}>>)

LevelOf(u) ==
  IF response.op \in ValueFactorOps
  THEN FirstPresent(<<{r.genius_level : r \in GeniusRowsOn(u, VALUE_FACTOR_TARGET_DATE)},
                      {r.genius_level : r \in GeniusRowsOn(u, VALUE_FACTOR_BASE_DATE)}>>)
  ELSE FirstPresent(<<{r.genius_level : r \in GeniusRowsOn(u, COMBINED_TARGET_DATE)},
                      {r.genius_level : r \in GeniusRowsOn(u, COMBINED_BASE_DATE)}>>)

\* User u, present in both snapshots, fails a country / level filter of the
\* request answered (value_factor_analysis takes no such filter).
FailsFilter(u) ==
  /\ response.op # "value_factor_analysis"
  /\ \/ request.countries # {}
          /\ (CountryOf(u) = None \/ Val(CountryOf(u)) \notin request.countries)
     \/ request.genius_levels # {}
          /\ (LevelOf(u) = None \/ Val(LevelOf(u)) \notin request.genius_levels)

\* User u, present in both snapshots, matches an exclusion flag that the
\* request answered has set.
MatchesExclusion(u) ==
  IF response.op \in ValueFactorOps
  THEN /\ request.exclude_both_half
       /\ ValueFactorOn(u, VALUE_FACTOR_BASE_DATE) = Some(Half)
       /\ ValueFactorOn(u, VALUE_FACTOR_TARGET_DATE) = Some(Half)
  ELSE LET Zero(f) == /\ FigureOn(u, COMBINED_BASE_DATE, f) = 0
                      /\ FigureOn(u, COMBINED_TARGET_DATE, f) = 0
       IN  \/ request.exclude_alpha_both_zero /\ Zero("alpha")
           \/ request.exclude_power_pool_both_zero /\ Zero("power_pool")
           \/ request.exclude_selected_both_zero /\ Zero("selected")

PresentOnBoth == PresentOnBase \cap PresentOnTarget

\* The comparable users that neither a filter nor a set exclusion flag removes.
Retained == {u \in PresentOnBoth : ~FailsFilter(u) /\ ~MatchesExclusion(u)}

-----------------------------------------------------------------------------
(* C5 *)

ItemCarriesBothValues(item) ==
  IF response.op = "value_factor_user_changes"
  THEN /\ item.base_value_factor
            = Round4(Val(ValueFactorOn(item.user, VALUE_FACTOR_BASE_DATE)))
       /\ item.target_value_factor
            = Round4(Val(ValueFactorOn(item.user, VALUE_FACTOR_TARGET_DATE)))
  ELSE /\ item.base_alpha = Round4(FigureOn(item.user, COMBINED_BASE_DATE, "alpha"))
       /\ item.target_alpha = Round4(FigureOn(item.user, COMBINED_TARGET_DATE, "alpha"))
       /\ item.base_selected = Round4(FigureOn(item.user, COMBINED_BASE_DATE, "selected"))
       /\ item.target_power_pool
            = Round4(FigureOn(item.user, COMBINED_TARGET_DATE, "power_pool"))

\* C5: in get_value_factor_user_changes and get_combined_user_changes a user
\* without a non-NULL value on the base date or on the target date is in no
\* page and is not counted in total; every item carries the user's base and
\* target values.
C5_OnlyUsersWithBothValues ==
  (response # Pending /\ response.op \in UserChangesOps) =>
    /\ ItemUsers(response.body.items) \subseteq PresentOnBoth
    /\ response.body.total <= Cardinality(PresentOnBoth)
    /\ \A i \in 1..Len(response.body.items) : ItemCarriesBothValues(response.body.items[i])

\* A page was answered over a store in which one user has only a target
\* value, another only a base value, and a third has both.
C5_Witness ==
  /\ response # Pending
  /\ response.op \in UserChangesOps
  /\ PresentOnTarget \ PresentOnBase # {}
  /\ PresentOnBase \ PresentOnTarget # {}
  /\ Len(response.body.items) >= 1

-----------------------------------------------------------------------------
(* C6 *)

CohortSum == response.body.summary.comparable_users
               + response.body.summary.new_users
               + response.body.summary.missing_users

\* C6 as stated: in get_value_factor_analysis and get_combined_analysis,
\* comparable_users + new_users + missing_users equals the number of distinct
\* users present in the base or the target snapshot, for every setting of the
\* filters and exclusion flags.
C6_Original ==
  (response # Pending /\ response.op \in AnalysisOps) =>
    CohortSum = Cardinality(PresentOnBase \cup PresentOnTarget)

\* C6 as amended: the three counts add up to the users present in either
\* snapshot less the users present in both that a country / level filter or a
\* set exclusion flag removes from the comparable rows; new_users and
\* missing_users are exactly the target-only and the base-only users.
C6_CohortCountsLessRemoved ==
  (response # Pending /\ response.op \in AnalysisOps) =>
    /\ CohortSum + Cardinality(PresentOnBoth \ Retained)
         = Cardinality(PresentOnBase \cup PresentOnTarget)
    /\ response.body.summary.new_users = Cardinality(PresentOnTarget \ PresentOnBase)
    /\ response.body.summary.missing_users = Cardinality(PresentOnBase \ PresentOnTarget)

\* An analysis was answered over a store with a new user, a missing user and
\* a user of both snapshots that the request's exclusion flag removed.
C6_Witness ==
  /\ response # Pending
  /\ response.op \in AnalysisOps
  /\ PresentOnTarget \ PresentOnBase # {}
  /\ PresentOnBase \ PresentOnTarget # {}
  /\ \E u \in PresentOnBoth : MatchesExclusion(u)

-----------------------------------------------------------------------------
(* C7 *)

ChangeOf(u) ==
  Val(ValueFactorOn(u, VALUE_FACTOR_TARGET_DATE)) - Val(ValueFactorOn(u, VALUE_FACTOR_BASE_DATE))

FigureChangeOf(u, f) == FigureOn(u, COMBINED_TARGET_DATE, f) - FigureOn(u, COMBINED_BASE_DATE, f)

\* The values of the retained users, in user order.
OverRetained(f) ==
  LET us == AscendingSeq(Retained) IN [i \in 1..Len(us) |-> f[us[i]]]

\* round(sum / count, 4) over the retained users, 0.0 when there is none
RetainedMean(f) ==
  IF Retained = {} THEN 0
  ELSE Round4Div(SumSeq(OverRetained(f)), Cardinality(Retained))

DimensionOf(u, key_name) ==
  LET rows == ConsultantRowsOn(u, VALUE_FACTOR_TARGET_DATE)
      v == (CHOOSE r \in rows : TRUE)[key_name]
  IN  IF v = None THEN "UNKNOWN" ELSE Val(v)

DimensionCountsRetained(groups, key_name) ==
  /\ SumSeq(Column(groups, "comparable_users")) = Cardinality(Retained)
  /\ \A i \in 1..Len(groups) :
       /\ groups[i].comparable_users
            = Cardinality({u \in Retained : DimensionOf(u, key_name) = groups[i].dimension})
       /\ groups[i].increased_users
            = Cardinality({u \in Retained : DimensionOf(u, key_name) = groups[i].dimension
                                            /\ ChangeOf(u) > 0})

HistogramCountsRetained(distribution) ==
  SumSeq(distribution.counts) = Cardinality(Retained)

ValueFactorAnalysisOverRetained ==
  LET b == response.body
      ToTarget(u) == Val(ValueFactorOn(u, VALUE_FACTOR_TARGET_DATE))
      ToBase(u) == Val(ValueFactorOn(u, VALUE_FACTOR_BASE_DATE))
  IN  /\ b.summary.comparable_users = Cardinality(Retained)
      /\ b.summary.avg_change = RetainedMean([u \in Retained |-> ChangeOf(u)])
      /\ b.summary.avg_target_value_factor = RetainedMean([u \in Retained |-> ToTarget(u)])
      /\ b.summary.avg_base_value_factor = RetainedMean([u \in Retained |-> ToBase(u)])
      /\ b.summary.median_change = RoundedMedian(OverRetained([u \in Retained |-> ChangeOf(u)]))
      /\ b.summary.increased_users = Cardinality({u \in Retained : ChangeOf(u) > 0})
      /\ b.summary.decreased_users = Cardinality({u \in Retained : ChangeOf(u) < 0})
      /\ b.summary.unchanged_users = Cardinality({u \in Retained : ChangeOf(u) = 0})
      /\ DimensionCountsRetained(b.by_country, "country")
      /\ DimensionCountsRetained(b.by_university, "university")
      /\ ItemUsers(b.top_gainers) = Retained
      /\ ItemUsers(b.top_decliners) = Retained
      /\ HistogramCountsRetained(b.distribution)

CombinedSummaryOverRetained(summary, f) ==
  LET Change(u) == FigureChangeOf(u, f)
      ToTarget(u) == FigureOn(u, COMBINED_TARGET_DATE, f)
      ToBase(u) == FigureOn(u, COMBINED_BASE_DATE, f)
  IN  /\ summary.avg_change = RetainedMean([u \in Retained |-> Change(u)])
      /\ summary.avg_target = RetainedMean([u \in Retained |-> ToTarget(u)])
      /\ summary.avg_base = RetainedMean([u \in Retained |-> ToBase(u)])
      /\ summary.median_change = RoundedMedian(OverRetained([u \in Retained |-> Change(u)]))
      /\ summary.increased_users = Cardinality({u \in Retained : Change(u) > 0})
      /\ summary.decreased_users = Cardinality({u \in Retained : Change(u) < 0})
      /\ summary.unchanged_users = Cardinality({u \in Retained : Change(u) = 0})

CombinedAnalysisOverRetained ==
  LET b == response.body
  IN  /\ b.summary.comparable_users = Cardinality(Retained)
      /\ CombinedSummaryOverRetained(b.metric_summaries[1], "alpha")
      /\ CombinedSummaryOverRetained(b.metric_summaries[2], "power_pool")
      /\ CombinedSummaryOverRetained(b.metric_summaries[3], "selected")
      /\ HistogramCountsRetained(b.distributions.alpha)
      /\ HistogramCountsRetained(b.distributions.power_pool)
      /\ HistogramCountsRetained(b.distributions.selected)

\* C7: a row that matches a set exclusion flag is removed before any
\* aggregate is computed: comparable_users, the averages, the median, the
\* increased / decreased / unchanged counts, the per-dimension aggregates, the
\* top lists, the histogram and the paginated total are those of the users
\* that remain.
C7_ExcludedRowsInNoAggregate ==
  /\ Answered("value_factor_analysis") => ValueFactorAnalysisOverRetained
  /\ Answered("combined_analysis") => CombinedAnalysisOverRetained
  /\ (response # Pending /\ response.op \in UserChangesOps) =>
       /\ response.body.total = Cardinality(Retained)
       /\ ItemUsers(response.body.items) \subseteq Retained

\* A request with an exclusion flag set was answered over a store in which a
\* user matches the exclusion and another comparable user does not.
C7_Witness ==
  /\ response # Pending
  /\ response.op \in AnalysisOps \cup UserChangesOps
  /\ \E u \in PresentOnBoth : MatchesExclusion(u)
  /\ Retained # {}
  /\ (response.op \in AnalysisOps => response.body.summary.comparable_users >= 1)
  /\ (response.op \in UserChangesOps => response.body.total >= 1)

-----------------------------------------------------------------------------
(* C2 *)

\* The position (1-based) of user u's row in the row sequence the database
\* delivered to the handler.
DeliveredIndex(u) == CHOOSE i \in 1..Len(delivered) : delivered[i].user = u

\* The figure and the quantity a combined sort key names.
CombinedKeyOf(u, key) ==
  CASE key = "alpha_change" -> FigureChangeOf(u, "alpha")
    [] key = "power_pool_change" -> FigureChangeOf(u, "power_pool")
    [] key = "selected_change" -> FigureChangeOf(u, "selected")
    [] key = "base_alpha" -> FigureOn(u, COMBINED_BASE_DATE, "alpha")
    [] key = "target_alpha" -> FigureOn(u, COMBINED_TARGET_DATE, "alpha")
    [] key = "base_power_pool" -> FigureOn(u, COMBINED_BASE_DATE, "power_pool")
    [] key = "target_power_pool" -> FigureOn(u, COMBINED_TARGET_DATE, "power_pool")
    [] key = "base_selected" -> FigureOn(u, COMBINED_BASE_DATE, "selected")
    [] key = "target_selected" -> FigureOn(u, COMBINED_TARGET_DATE, "selected")

\* The value user u has in the sort field the request names ("change" and
\* "alpha_change" when it names no sortable field).
SortKeyOf(u) ==
  IF response.op = "value_factor_user_changes"
  THEN CASE request.sort_by = "base_value_factor" ->
              Val(ValueFactorOn(u, VALUE_FACTOR_BASE_DATE))
         [] request.sort_by = "target_value_factor" ->
              Val(ValueFactorOn(u, VALUE_FACTOR_TARGET_DATE))
         [] OTHER -> ChangeOf(u)
  ELSE CombinedKeyOf(u, IF request.sort_by \in CombinedSortKeys
                        THEN request.sort_by ELSE "alpha_change")

\* v comes before u in the fully sorted filtered list: a better key in the
\* requested direction, or an equal key and an earlier delivered row.
Ahead(v, u, key, index) ==
  \/ IF request.sort_order = "asc" THEN key[v] < key[u] ELSE key[v] > key[u]
  \/ key[v] = key[u] /\ index[v] < index[u]

\* C2: in get_value_factor_user_changes and get_combined_user_changes the
\* items of page p with page size s are exactly the elements at the 0-based
\* positions [(p-1)*s, p*s) of the fully sorted filtered list, none when the
\* page is past the end, and total is the size of the filtered list.
C2_PageIsSliceOfSortedList ==
  (response # Pending /\ response.op \in UserChangesOps) =>
    LET filtered == Retained
        key == [u \in filtered |-> SortKeyOf(u)]
        index == [u \in filtered |-> DeliveredIndex(u)]
        position == [u \in filtered |->
                       Cardinality({v \in filtered : Ahead(v, u, key, index)})]
        first == (request.page - 1) * request.page_size
        onPage == {u \in filtered : /\ position[u] >= first
                                    /\ position[u] < first + request.page_size}
        items == response.body.items
    IN  /\ response.body.total = Cardinality(filtered)
        /\ Len(items) = Cardinality(onPage)
        /\ \A i \in 1..Len(items) :
             /\ items[i].user \in filtered
             /\ position[items[i].user] = first + i - 1

\* Page 2 of a filtered list of three users was answered: it holds the one
\* user left after the two of page 1.
C2_Witness ==
  /\ response # Pending
  /\ response.op \in UserChangesOps
  /\ request.page = 2
  /\ request.page_size = 2
  /\ response.body.total = 3
  /\ Len(response.body.items) = 1

-----------------------------------------------------------------------------
(* C9 *)

\* The entries of the answer, and for each its sort-key value and its place
\* in the input row sequence of the sort.
SortedOutput ==
  IF response.op = "genius_user_weight_changes" THEN response.body
  ELSE response.body.items

OutputKey(item) ==
  IF response.op = "genius_user_weight_changes" THEN item.weight_change
  ELSE SortKeyOf(item.user)

\* get_genius_user_weight_changes sorts its entries in the order its query
\* delivers the users (ORDER BY user); the two paged operations sort the
\* rows in the order the database delivered them.
InputIndex(item) ==
  IF response.op = "genius_user_weight_changes" THEN item.user
  ELSE DeliveredIndex(item.user)

Ascending ==
  IF response.op = "genius_user_weight_changes" THEN request.order = "asc"
  ELSE request.sort_order = "asc"

\* C9: the output of get_value_factor_user_changes, get_combined_user_changes
\* and get_genius_user_weight_changes is ordered by the requested sort field
\* in the requested direction, and entries of equal sort key keep the relative
\* order of the input row sequence, for asc and for desc.
C9_SortedAndStable ==
  (response # Pending
     /\ response.op \in UserChangesOps \cup {"genius_user_weight_changes"}) =>
    \A i, j \in 1..Len(SortedOutput) :
      i < j =>
        LET a == SortedOutput[i]
            b == SortedOutput[j]
        IN  /\ IF Ascending THEN OutputKey(a) <= OutputKey(b)
                            ELSE OutputKey(a) >= OutputKey(b)
            /\ OutputKey(a) = OutputKey(b) => InputIndex(a) < InputIndex(b)

\* A descending answer holds two entries of equal sort key.
C9_Witness ==
  /\ response # Pending
  /\ response.op \in UserChangesOps \cup {"genius_user_weight_changes"}
  /\ ~Ascending
  /\ \E i, j \in 1..Len(SortedOutput) :
       /\ i < j
       /\ OutputKey(SortedOutput[i]) = OutputKey(SortedOutput[j])

-----------------------------------------------------------------------------
(* C8 *)

\* C8: get_genius_user_weight_changes ranks its N entries 1..N in sorted
\* order; for N > 1 the percentile of rank r is (1 - (r-1)/(N-1)) * 100
\* rounded to two decimals, 100.0 for rank 1 and 0.0 for rank N; for N = 1 it
\* is 100.0; the percentile does not increase with the rank and lies within
\* [0, 100].  Percentiles are in hundredths of a point.
C8_RanksAndPercentiles ==
  Answered("genius_user_weight_changes") =>
    LET out == response.body
        N == Len(out)
    IN  /\ \A r \in 1..N :
             /\ out[r].rank = r
             /\ out[r].percentile >= 0
             /\ out[r].percentile <= 10000
             /\ N = 1 => out[r].percentile = 10000
             /\ N > 1 =>
                  2 * Abs(out[r].percentile * (N - 1) - (N - r) * 10000) <= N - 1
        /\ N > 1 => out[1].percentile = 10000 /\ out[N].percentile = 0
        /\ \A r \in 1..(N - 1) : out[r].percentile >= out[r + 1].percentile

\* Three users were ranked: the middle one has a percentile strictly between
\* 0 and 100.
C8_Witness ==
  /\ Answered("genius_user_weight_changes")
  /\ Len(response.body) = 3
  /\ response.body[2].percentile = 5000

-----------------------------------------------------------------------------
(* C3 *)

\* The weight_factor of user u / of country c on day d: None when no live row
\* of that day carries one.
UserWeightOn(u, d) ==
  LET rows == {r \in consultantUser :
                 ~r.delete_flag /\ r.user = u /\ r.record_date = d
                 /\ r.weight_factor # None}
  IN  IF rows = {} THEN None ELSE (CHOOSE r \in rows : TRUE).weight_factor

CountryWeightOn(c, d) ==
  LET rows == {r \in consultantCountry :
                 ~r.delete_flag /\ r.country = c /\ r.record_date = d
                 /\ r.weight_factor # None}
  IN  IF rows = {} THEN None ELSE (CHOOSE r \in rows : TRUE).weight_factor

\* The users of genius level l on day d, and the weight they hold together
\* on day of (a missing weight_factor counting 0).
UsersOfLevel(l, d) ==
  {Val(g.user) : g \in {x \in geniusUser :
                          ~x.delete_flag /\ x.record_date = d /\ x.user # None
                          /\ x.genius_level = Some(l)}}

LevelRowsOn(l, d, of) ==
  {r \in consultantUser :
     ~r.delete_flag /\ r.record_date = of /\ r.user \in UsersOfLevel(l, d)}

\* The delta and the delta-percent the claim prescribes for a current and a
\* baseline value; percent is None or a fraction.
PrescribedChange(current, baseline, change, percent) ==
  /\ change = current - baseline
  /\ baseline # 0 => percent = Some(Ratio((current - baseline) * 100, baseline))
  /\ (baseline = 0 /\ current # 0) => percent = Some(FullGrowth)

\* C3: in get_country_leaderboard, get_user_leaderboard,
\* get_genius_user_weight_changes and get_genius_level_weight_changes, an
\* entity whose baseline value exists has delta = current - baseline,
\* delta-percent = delta / baseline * 100 when the baseline is not 0, and
\* delta-percent = 100.0 (never null) when the baseline is 0 and current is not.
C3_DeltaPercentOfBaseline ==
  /\ Answered("country_leaderboard") =>
       \A i \in 1..Len(response.body) :
         LET e == response.body[i]
             baseline == CountryWeightOn(e.country, e.record_date - request.days)
         IN  baseline # None =>
               PrescribedChange(e.weight_factor, Val(baseline), e.weight_change,
                                Some(e.weight_change_percent))
  /\ Answered("user_leaderboard") =>
       \A i \in 1..Len(response.body) :
         LET e == response.body[i]
             baseline == UserWeightOn(e.user, e.record_date - request.days)
         IN  baseline # None =>
               PrescribedChange(e.weight_factor, Val(baseline), e.weight_change,
                                Some(e.weight_change_percent))
  /\ Answered("genius_user_weight_changes") =>
       \A i \in 1..Len(response.body) :
         LET e == response.body[i]
         IN  PrescribedChange(e.end_weight, e.start_weight, e.weight_change,
                              e.weight_change_percent)
  /\ Answered("genius_level_weight_changes") =>
       \A i \in 1..Len(response.body) :
         LET e == response.body[i]
             latest == Val(LatestDate(consultantUser))
             current == SumOfWeights(LevelRowsOn(e.genius_level, latest, latest))
             before == LevelRowsOn(e.genius_level, latest, latest - request.days)
             baseline == SumOfWeights(before)
         IN  before # {} =>
               /\ e.weight_change = Round2(current - baseline)
               /\ baseline # 0 =>
                    LET q == Ratio((current - baseline) * 10000, baseline)
                    IN  e.weight_change_percent = RoundHalfEven(q.num, q.den)
               /\ (baseline = 0 /\ current # 0) => e.weight_change_percent = 10000

-----------------------------------------------------------------------------
(* C4 *)

WeightRankingOps == {"country_leaderboard", "user_leaderboard", "top_users_by_weight_change"}

\* The current and the baseline date the operation answered resolves.
CurrentDate ==
  CASE response.op = "country_leaderboard" -> LatestDate(consultantCountry)
    [] response.op = "user_leaderboard" -> LatestDate(consultantUser)
    [] OTHER -> ComparisonDates(consultantUser, request.quarter).latest_date

BaselineDate ==
  CASE response.op = "top_users_by_weight_change" ->
         ComparisonDates(consultantUser, request.quarter).start_date
    [] OTHER -> Some(Val(CurrentDate) - request.days)

\* The weight of entity e (a country, a user) on day d, None: no date.
EntityWeightOn(e, d) ==
  IF d = None THEN None
  ELSE IF response.op = "country_leaderboard" THEN CountryWeightOn(e, Val(d))
  ELSE UserWeightOn(e, Val(d))

\* The entities the operation ranks: those with a weight on the current date
\* (and of the requested country, where the request names one).
Ranked ==
  IF response.op = "country_leaderboard"
  THEN {c \in {r.country : r \in consultantCountry} : EntityWeightOn(c, CurrentDate) # None}
  ELSE {u \in {r.user : r \in consultantUser} :
          /\ EntityWeightOn(u, CurrentDate) # None
          /\ response.op = "top_users_by_weight_change" =>
               \/ request.country = None
               \/ \E r \in consultantUser :
                    /\ r.user = u
                    /\ r.record_date = Val(CurrentDate)
                    /\ r.country = request.country}

WithoutBaseline == {e \in Ranked : EntityWeightOn(e, BaselineDate) = None}

RankingEntries ==
  IF response.op = "top_users_by_weight_change" THEN response.body.items
  ELSE response.body

EntityOf(entry) ==
  IF response.op = "country_leaderboard" THEN entry.country ELSE entry.user

\* The number of entries the request asks for, and the number it skips.
Asked == IF response.op = "top_users_by_weight_change" THEN request.page_size
         ELSE request.limit

Skipped == IF response.op = "top_users_by_weight_change"
           THEN (request.page - 1) * request.page_size ELSE 0

\* C4: in get_country_leaderboard, get_user_leaderboard and
\* get_top_users_by_weight_change an entity with a weight on the current date
\* and no baseline on the baseline date is ranked like every other: the
\* result holds as many entries as the ranked entities allow, all of them
\* when the limit or the page does not cut the ranking, and the entry of such
\* an entity has weight_change equal to its current weight and, where a
\* percent is reported, weight_change_percent = 100.0.
C4_NoBaselineRankedAsGrowthFromZero ==
  (response # Pending /\ response.op \in WeightRankingOps /\ CurrentDate # None) =>
    /\ Len(RankingEntries) = Max2(0, Min2(Asked, Cardinality(Ranked) - Skipped))
    /\ {EntityOf(RankingEntries[i]) : i \in 1..Len(RankingEntries)} \subseteq Ranked
    /\ (Skipped = 0 /\ Cardinality(Ranked) <= Asked) =>
         \A e \in WithoutBaseline :
           \E i \in 1..Len(RankingEntries) : EntityOf(RankingEntries[i]) = e
    /\ response.op = "top_users_by_weight_change" =>
         response.body.total = Cardinality(Ranked)
    /\ \A i \in 1..Len(RankingEntries) :
         LET entry == RankingEntries[i]
             current == Val(EntityWeightOn(EntityOf(entry), CurrentDate))
         IN  EntityOf(entry) \in WithoutBaseline =>
               IF response.op = "top_users_by_weight_change"
               THEN /\ entry.current_weight = Round2(current)
                    /\ entry.weight_change = Round2(current)
               ELSE /\ entry.weight_change = current
                    /\ entry.weight_change_percent = FullGrowth

\* A ranking was answered that holds an entity without a baseline next to
\* one with a baseline.
C4_Witness ==
  /\ response # Pending
  /\ response.op \in WeightRankingOps
  /\ CurrentDate # None
  /\ \E i, j \in 1..Len(RankingEntries) :
       /\ EntityOf(RankingEntries[i]) \in WithoutBaseline
       /\ EntityOf(RankingEntries[j]) \notin WithoutBaseline
       /\ EntityWeightOn(EntityOf(RankingEntries[i]), CurrentDate) # Some(0)

-----------------------------------------------------------------------------
(* C10 *)

\* C10: every call of _build_distribution returns, and the counts it returns
\* sum to the number of values; equal values give exactly one label and one
\* count, the number of values; no value gives no label and no count;
\* otherwise there are exactly bins labels and bins counts.
C10_DistributionShape ==
  Answered("build_distribution") =>
    /\ response.body.returned
    /\ LET values == request.values
           out == response.body.value
       IN  /\ SumSeq(out.counts) = Len(values)
           /\ Len(out.labels) = Len(out.counts)
           /\ values = <<>> => out.labels = <<>> /\ out.counts = <<>>
           /\ (values # <<>> /\ Cardinality(Range(values)) = 1) =>
                Len(out.labels) = 1 /\ out.counts = <<Len(values)>>
           /\ Cardinality(Range(values)) > 1 => Len(out.labels) = request.bins

-----------------------------------------------------------------------------
(* C11 *)

\* C11: when _build_distribution returns for values with min < max, its
\* counts are those of the index min(floor((value - min) / step), bins - 1)
\* with step = (max - min) / bins: the smallest value is counted in bin 0 and
\* the largest in the last bin.
C11_MaximumInLastBin ==
  (/\ Answered("build_distribution")
   /\ response.body.returned
   /\ Cardinality(Range(request.values)) > 1) =>
    LET values == request.values
        bins == request.bins
        counts == response.body.value.counts
        min_value == SetMin(Range(values))
        max_value == SetMax(Range(values))
    IN  /\ Len(counts) = bins
        /\ counts[1] >= Cardinality({k \in 1..Len(values) : values[k] = min_value})
        /\ counts[bins] >= Cardinality({k \in 1..Len(values) : values[k] = max_value})
        /\ \A i \in 1..bins :
             counts[i] = Cardinality({k \in 1..Len(values) :
                           BinIndex(values[k], min_value, max_value, bins) = i - 1})

-----------------------------------------------------------------------------
(* C1 *)

\* The entities of the filtered set the paged ranking ranks.
PagedEntities ==
  CASE response.op \in UserChangesOps -> Retained
    [] response.op = "top_users_by_weight_change" ->
         IF CurrentDate = None THEN {} ELSE Ranked
    [] response.op = "top_users_by_weight" ->
         {r.user : r \in TopWeightRows(consultantUser, LatestDate(consultantUser),
                                       request.country)}

\* The client has read page 1 and every page up to ceil(total / page_size).
AllPagesFetched ==
  /\ response # Pending
  /\ Len(fetched) * request.page_size >= response.body.total

RECURSIVE Flatten(_)
Flatten(pages) == IF pages = <<>> THEN <<>> ELSE Head(pages) \o Flatten(Tail(pages))

\* C1: the pages 1..ceil(total / page_size) a client fetches by separate
\* requests, with the filters, the sort and page_size fixed and the store
\* unchanged, hold every entity of the filtered set exactly once, and their
\* lengths sum to total, also when entities tie on the sort key.
C1_PagesPartitionRanking ==
  AllPagesFetched =>
    LET seen == Flatten(fetched)
    IN  /\ Len(seen) = response.body.total
        /\ \A i, j \in 1..Len(seen) : i # j => seen[i] # seen[j]
        /\ Range(seen) = PagedEntities

-----------------------------------------------------------------------------
(* _median called on a list of its own *)

\* One call of _median: what it returns, and the caller's list after the
\* call.  sorted(values) builds a new list; values is assigned nowhere.
ApplyMedian ==
  /\ request.op = "median"
  /\ response = Pending
  /\ response' = [op |-> request.op,
                  body |-> [result |-> Median(request.values),
                            values |-> request.values]]
  /\ UNCHANGED <<tables, request, delivered, fetched>>

\* The calls of _median: up to MaxLen values between -MaxVal and MaxVal, in
\* every order.
InitMedian ==
  /\ consultantUser = {}
  /\ geniusUser = {}
  /\ consultantCountry = {}
  /\ geniusCountry = {}
  /\ consultantUniversity = {}
  /\ eventUpdateRecord = {}
  /\ redis = <<>>
  /\ \E n \in 0..MaxLen : \E values \in [1..n -> (-MaxVal)..MaxVal] :
       Arrived([op |-> "median", values |-> values])

SpecMedian == InitMedian /\ [][ApplyMedian]_vars

-----------------------------------------------------------------------------
(* C12 *)

\* The number of positions of the list s that hold v.
Occurrences(s, v) == Cardinality({i \in 1..Len(s) : s[i] = v})

\* The list s in ascending order: the non-decreasing list that holds every
\* value as often as s does.
InAscendingOrder(s) ==
  CHOOSE a \in [1..Len(s) -> Range(s)] :
    /\ \A i \in 1..(Len(s) - 1) : a[i] <= a[i + 1]
    /\ \A v \in Range(s) : Occurrences(a, v) = Occurrences(s, v)

\* C12: _median returns the middle element of the sorted list when the
\* length is odd, the average of the two middle elements when it is even and
\* 0.0 for the empty list, whatever the order of the input, and leaves its
\* input list as it was.
C12_MedianOfAnyOrder ==
  Answered("median") =>
    LET values == request.values
        n == Len(values)
        a == InAscendingOrder(values)
        m == response.body.result
    IN  /\ response.body.values = values
        /\ n = 0 => m.num = 0
        /\ (n > 0 /\ n % 2 = 1) => m.num = a[(n + 1) \div 2] * m.den
        /\ (n > 0 /\ n % 2 = 0) => 2 * m.num = (a[n \div 2] + a[n \div 2 + 1]) * m.den

\* An even number of values given in descending order, their average not a
\* whole number.
C12_Witness ==
  /\ Answered("median")
  /\ Len(request.values) = 2
  /\ request.values[1] > request.values[2]
  /\ (request.values[1] + request.values[2]) % 2 = 1
  /\ 2 * response.body.result.num = (request.values[1] + request.values[2]) * response.body.result.den

-----------------------------------------------------------------------------
(* Time series per country: get_country_submission_time_series and
   get_genius_country_time_series *)

\* The response of an endpoint that calls its service function outside any
\* try block: the result with status 200, or, the exception reaching the
\* server unhandled, status 500.
EndpointResponse(outcome) ==
  [op |-> request.op, body |-> outcome,
   status_code |-> IF outcome.returned THEN 200 ELSE 500]

\* A date string of a request: the parameter left out or empty, a string
\* "year-month-day" of digits, kept as its three numbers, or any other
\* string.
NoDateString == [given |-> FALSE, digits |-> FALSE]

DateString(year, month, day) ==
  [given |-> TRUE, digits |-> TRUE, year |-> year, month |-> month, day |-> day]

JunkDateString == [given |-> TRUE, digits |-> FALSE]

\* The days of month m of a year.
DaysInMonth(year, m) ==
  IF m = 2 /\ IsLeap(year) THEN 29
  ELSE <<31, 28, 31, 30, 31, 30, 31, 31, 30, 31, 30, 31>>[m]

\* datetime.strptime(s, "%Y-%m-%d").date(): the day number of the date, or
\* ValueError for a string that is no calendar date.
Strptime(s) ==
  IF /\ s.digits
     /\ s.year \in 1..9999
     /\ s.month \in 1..12
     /\ s.day \in 1..DaysInMonth(s.year, s.month)
  THEN Returned(FirstOfMonth(s.year, s.month) + s.day - 1)
  ELSE Raised("ValueError")

\* A row of leaderboard_genius_country_or_region.
GeniusCountryRow(c, d, alpha, deleted) ==
  [country |-> c, record_date |-> d, delete_flag |-> deleted, alpha_count |-> alpha]

\* A row of leaderboard_consultant_country_or_region with its counters.
ConsultantCountryCountsRow(c, d, w, sub, sa, deleted) ==
  [country |-> c, record_date |-> d, delete_flag |-> deleted, weight_factor |-> w,
   user |-> None, submissions_count |-> sub, super_alpha_submissions_count |-> sa]

\* The collation order of the country codes of the stores.
CountryCollation(c) ==
  CASE c = "CN" -> 1
    [] c = "JP" -> 2
    [] c = "US" -> 3
    [] OTHER -> 4

\* countries = [country[0] for country in all_countries if country[0]] over
\* the live rows, when the request names no country.
CountriesOrAll(table, countries) ==
  IF countries # {} THEN countries
  ELSE {Val(r.country) : r \in {x \in table : ~x.delete_flag /\ x.country # None}}

\* The orders in which the database may deliver rows under an ORDER BY whose
\* key of row r is the number key[r]: ascending, rows of equal key in any
\* order.
RECURSIVE AscendingOrders(_, _)
AscendingOrders(rows, key) ==
  IF rows = {} THEN {<<>>}
  ELSE LET least == SetMin({key[r] : r \in rows})
       IN  UNION {{<<r>> \o s : s \in AscendingOrders(rows \ {r}, key)}
                    : r \in {x \in rows : key[x] = least}}

\* An ORDER BY that leaves the order of the rows open.
UnorderedRows(rows) == AscendingOrders(rows, [r \in rows |-> 0])

\* ORDER BY record_date ASC.
DateOrders(rows) == AscendingOrders(rows, [r \in rows |-> r.record_date])

\* ORDER BY country ASC, record_date ASC, over rows whose country is not
\* NULL (a year has fewer than 1000 days).
CountryDateOrders(rows) ==
  AscendingOrders(rows, [r \in rows |->
                           1000 * CountryCollation(Val(r.country)) + r.record_date])

\* The keys of a dict in insertion order: the distinct elements of keys in
\* the order of their first occurrence.
RECURSIVE InsertionOrder(_)
InsertionOrder(keys) ==
  IF keys = <<>> THEN <<>>
  ELSE LET front == InsertionOrder(SubSeq(keys, 1, Len(keys) - 1))
           last == keys[Len(keys)]
       IN  IF last \in Range(front) THEN front ELSE Append(front, last)

\* The rows of ord whose key is k, in the order of ord.
RowsOfKey(ord, keys, k) ==
  LET Is(i) == keys[i] = k
      RECURSIVE Pick(_)
      Pick(n) == IF n = 0 THEN <<>>
                 ELSE IF Is(n) THEN Append(Pick(n - 1), ord[n]) ELSE Pick(n - 1)
  IN  Pick(Len(ord))

\* The change sequence with the first count itself as its first element.
DayOverDayChangeFromZero(counts) ==
  [i \in 1..Len(counts) |-> IF i = 1 THEN counts[1] ELSE counts[i] - counts[i - 1]]

\* 0 for the first element, counts[i] - counts[i - 1] for the others.
DayOverDayChange(counts) ==
  [i \in 1..Len(counts) |-> IF i = 1 THEN 0 ELSE counts[i] - counts[i - 1]]

\* The start and end of get_country_submission_time_series, exchanged when
\* start > end.
SubmissionDateRange(latest_date, limit_days, start, end) ==
  LET e == IF end = None THEN latest_date ELSE Val(end)
      s == IF start = None THEN e - (limit_days - 1) ELSE Val(start)
  IN  IF s > e THEN [start |-> e, end |-> s] ELSE [start |-> s, end |-> e]

\* The rows get_country_submission_time_series queries.
SubmissionRows(cc, countries, range) ==
  {r \in cc : /\ ~r.delete_flag
              /\ r.country # None
              /\ Val(r.country) \in countries
              /\ r.record_date >= range.start
              /\ r.record_date <= range.end}

\* country_data of get_country_submission_time_series for the rows
\* delivered in the order ord.
SubmissionSeries(ord) ==
  LET keys == [i \in 1..Len(ord) |-> Val(ord[i].country)]
      order == InsertionOrder(keys)
      Entry(k) ==
        LET rows == RowsOfKey(ord, keys, k)
            submissions == [i \in 1..Len(rows) |-> OrZero(rows[i].submissions_count)]
            sa_submissions ==
              [i \in 1..Len(rows) |-> OrZero(rows[i].super_alpha_submissions_count)]
        IN  [country |-> k,
             dates |-> [i \in 1..Len(rows) |-> rows[i].record_date],
             submissions_count |-> submissions,
             super_alpha_submissions_count |-> sa_submissions,
             submissions_change |-> DayOverDayChange(submissions),
             super_alpha_submissions_change |-> DayOverDayChange(sa_submissions)]
  IN  [i \in 1..Len(order) |-> Entry(order[i])]

\* One request of get_country_submission_time_series.
GetCountrySubmissionTimeSeries ==
  /\ request.op = "country_submission_time_series"
  /\ response = Pending
  /\ LET countries == CountriesOrAll(consultantCountry, request.countries)
         latest_date == LatestDate(consultantCountry)
         start == IF request.start_date.given THEN Strptime(request.start_date)
                  ELSE Returned(None)
         end == IF request.end_date.given THEN Strptime(request.end_date)
                ELSE Returned(None)
     IN  IF latest_date = None
         THEN /\ delivered' = NoRows
              /\ response' = EndpointResponse(Returned(<<>>))
         ELSE IF ~start.returned \/ ~end.returned
         THEN /\ delivered' = NoRows
              /\ response' = EndpointResponse(Raised("ValueError"))
         ELSE LET range == SubmissionDateRange(Val(latest_date), request.limit_days,
                             IF request.start_date.given THEN Some(start.value) ELSE None,
                             IF request.end_date.given THEN Some(end.value) ELSE None)
              IN  \E ord \in CountryDateOrders(
                               SubmissionRows(consultantCountry, countries, range)) :
                    /\ delivered' = ord
                    /\ response' = EndpointResponse(Returned(SubmissionSeries(ord)))
  /\ UNCHANGED <<tables, request, fetched>>

\* The rows get_genius_country_time_series queries: start and end are None
\* (no bound) or a parsed date.
GeniusCountryRows(gc, countries, start, end) ==
  {r \in gc : /\ ~r.delete_flag
              /\ r.country # None
              /\ Val(r.country) \in countries
              /\ (start # None => r.record_date >= Val(start))
              /\ (end # None => r.record_date <= Val(end))}

\* country_data of get_genius_country_time_series.
GeniusCountrySeries(ord) ==
  LET keys == [i \in 1..Len(ord) |-> Val(ord[i].country)]
      order == InsertionOrder(keys)
      Entry(k) ==
        LET rows == RowsOfKey(ord, keys, k)
            alpha_counts == [i \in 1..Len(rows) |-> OrZero(rows[i].alpha_count)]
        IN  [country |-> k,
             dates |-> [i \in 1..Len(rows) |-> rows[i].record_date],
             alpha_count_change |-> DayOverDayChange(alpha_counts)]
  IN  [i \in 1..Len(order) |-> Entry(order[i])]

\* One request of get_genius_country_time_series.
GetGeniusCountryTimeSeries ==
  /\ request.op = "genius_country_time_series"
  /\ response = Pending
  /\ LET countries == CountriesOrAll(geniusCountry, request.countries)
         start == IF request.start_date.given THEN Strptime(request.start_date)
                  ELSE Returned(None)
         end == IF request.end_date.given THEN Strptime(request.end_date)
                ELSE Returned(None)
     IN  IF ~start.returned \/ ~end.returned
         THEN /\ delivered' = NoRows
              /\ response' = EndpointResponse(Raised("ValueError"))
         ELSE \E ord \in CountryDateOrders(
                           GeniusCountryRows(geniusCountry, countries,
                             IF request.start_date.given THEN Some(start.value) ELSE None,
                             IF request.end_date.given THEN Some(end.value) ELSE None)) :
                /\ delivered' = ord
                /\ response' = EndpointResponse(Returned(GeniusCountrySeries(ord)))
  /\ UNCHANGED <<tables, request, fetched>>

\* The stores of the country time series.  A country has the rows of one
\* profile: the days of a row, its two counters and whether it is deleted.
SeriesDay(d, count, super, deleted) ==
  [date |-> d, count |-> count, super |-> super, deleted |-> deleted]

SeriesProfiles ==
  { {SeriesDay(9, Some(5), Some(1), FALSE), SeriesDay(10, Some(3), None, FALSE),
     SeriesDay(11, Some(7), Some(2), FALSE)},
    {SeriesDay(11, None, Some(4), FALSE), SeriesDay(12, Some(9), Some(9), TRUE)},
    {SeriesDay(8, Some(2), Some(2), FALSE)},
    {SeriesDay(10, Some(1), Some(0), FALSE), SeriesDay(10, Some(4), Some(1), FALSE)} }

\* The rows of the countries of prof, and with_null a row without country.
SeriesConsultantCountryRows(prof, with_null) ==
  UNION {{ConsultantCountryCountsRow(Some(CountryNames[i]), d.date, d.super, d.count,
                                     d.super, d.deleted) : d \in prof[i]}
           : i \in DOMAIN prof}
  \cup (IF with_null
        THEN {ConsultantCountryCountsRow(None, 11, Some(6), Some(6), None, FALSE)}
        ELSE {})

SeriesGeniusCountryRows(prof, with_null) ==
  UNION {{GeniusCountryRow(Some(CountryNames[i]), d.date, d.count, d.deleted)
            : d \in prof[i]} : i \in DOMAIN prof}
  \cup (IF with_null THEN {GeniusCountryRow(None, 11, Some(6), FALSE)} ELSE {})

\* The countries parameter: none, one country, two countries.
SeriesCountryFilters == {{}, {"CN"}, {"US", "JP"}}

\* The limit_days parameter.
LimitDays == {1, 3}

\* The date strings of the requests: none, two dates, a 30th of February and
\* a string that is no date.
DateStrings ==
  {NoDateString, DateString(2026, 2, 9), DateString(2026, 2, 11),
   DateString(2026, 2, 30), JunkDateString}

InitCountrySubmissionSeries ==
  /\ \E n \in 0..MaxCountries : \E prof \in [1..n -> SeriesProfiles] :
       \E with_null \in BOOLEAN :
         consultantCountry = SeriesConsultantCountryRows(prof, with_null)
  /\ geniusCountry = {}
  /\ consultantUniversity = {}
  /\ eventUpdateRecord = {}
  /\ redis = <<>>
  /\ consultantUser = {}
  /\ geniusUser = {}
  /\ \E countries \in SeriesCountryFilters, limit_days \in LimitDays,
        start_date \in DateStrings, end_date \in DateStrings :
       Arrived([op |-> "country_submission_time_series", countries |-> countries,
                limit_days |-> limit_days, start_date |-> start_date,
                end_date |-> end_date])

InitGeniusCountrySeries ==
  /\ \E n \in 0..MaxCountries : \E prof \in [1..n -> SeriesProfiles] :
       \E with_null \in BOOLEAN :
         geniusCountry = SeriesGeniusCountryRows(prof, with_null)
  /\ consultantCountry = {}
  /\ consultantUniversity = {}
  /\ eventUpdateRecord = {}
  /\ redis = <<>>
  /\ consultantUser = {}
  /\ geniusUser = {}
  /\ \E countries \in SeriesCountryFilters,
        start_date \in DateStrings, end_date \in DateStrings :
       Arrived([op |-> "genius_country_time_series", countries |-> countries,
                start_date |-> start_date, end_date |-> end_date])

InitChangeSeries == InitCountrySubmissionSeries \/ InitGeniusCountrySeries

NextChangeSeries == GetCountrySubmissionTimeSeries \/ GetGeniusCountryTimeSeries

SpecChangeSeries == InitChangeSeries /\ [][NextChangeSeries]_vars

-----------------------------------------------------------------------------
(* C13 *)

\* The operation answered with a result, not an exception.
AnsweredWithResult(op) == Answered(op) /\ response.body.returned

\* The counter of the delivered rows of country c, in the order delivered,
\* a null counter read as 0.
DeliveredCounts(c, counter) ==
  LET Of(r) == Val(r.country) = c
      rows == SelectSeq(delivered, Of)
  IN  [i \in 1..Len(rows) |-> OrZero(rows[i][counter])]

\* The sequence change is the day-over-day change of the sequence counts
\* over the dates.
IsDayOverDayChange(change, counts, dates) ==
  /\ Len(change) = Len(dates)
  /\ Len(counts) = Len(dates)
  /\ Len(dates) >= 1
  /\ change[1] = 0
  /\ \A i \in 2..Len(dates) : change[i] = counts[i] - counts[i - 1]

\* C13: in get_country_submission_time_series and
\* get_genius_country_time_series every change sequence of every entity of
\* the result has the length of dates, 0 at index 0 and count[i] - count[i-1]
\* of its counter (null read as 0) at every later index.
C13_DayOverDayChanges ==
  /\ AnsweredWithResult("country_submission_time_series") =>
       \A i \in 1..Len(response.body.value) :
         LET e == response.body.value[i]
         IN  /\ IsDayOverDayChange(e.submissions_change,
                   DeliveredCounts(e.country, "submissions_count"), e.dates)
             /\ IsDayOverDayChange(e.super_alpha_submissions_change,
                   DeliveredCounts(e.country, "super_alpha_submissions_count"), e.dates)
             /\ e.submissions_count = DeliveredCounts(e.country, "submissions_count")
  /\ AnsweredWithResult("genius_country_time_series") =>
       \A i \in 1..Len(response.body.value) :
         LET e == response.body.value[i]
         IN  IsDayOverDayChange(e.alpha_count_change,
               DeliveredCounts(e.country, "alpha_count"), e.dates)

\* A series of three days whose counter is null on the second day.
C13_Witness ==
  /\ AnsweredWithResult("country_submission_time_series")
  /\ \E i \in 1..Len(response.body.value) :
       /\ Len(response.body.value[i].dates) = 3
       /\ response.body.value[i].super_alpha_submissions_change = <<0, -1, 2>>

-----------------------------------------------------------------------------
(* The weight time series: get_country_weight_time_series and
   get_genius_weight_sum_time_series *)

\* The rows get_country_weight_time_series queries.
CountryWeightRows(cc, countries, start_date, latest_date) ==
  {r \in cc : /\ ~r.delete_flag
              /\ r.country # None
              /\ Val(r.country) \in countries
              /\ r.record_date >= start_date
              /\ r.record_date <= latest_date}

\* country_data of get_country_weight_time_series for the rows delivered in
\* the order ord.
CountryWeightSeries(ord) ==
  LET keys == [i \in 1..Len(ord) |-> Val(ord[i].country)]
      order == InsertionOrder(keys)
      Entry(k) ==
        LET rows == RowsOfKey(ord, keys, k)
        IN  [country |-> k,
             dates |-> [i \in 1..Len(rows) |-> rows[i].record_date],
             weights |-> [i \in 1..Len(rows) |-> OrZero(rows[i].weight_factor)]]
  IN  [i \in 1..Len(order) |-> Entry(order[i])]

\* One request of get_country_weight_time_series.
GetCountryWeightTimeSeries ==
  /\ request.op = "country_weight_time_series"
  /\ response = Pending
  /\ LET countries == CountriesOrAll(consultantCountry, request.countries)
         latest_date == LatestDate(consultantCountry)
     IN  IF latest_date = None
         THEN /\ delivered' = NoRows
              /\ response' = EndpointResponse(Returned(<<>>))
         ELSE LET start_date == Val(latest_date) - (request.limit_days - 1)
              IN  \E ord \in DateOrders(CountryWeightRows(consultantCountry, countries,
                                          start_date, Val(latest_date))) :
                    /\ delivered' = ord
                    /\ response' = EndpointResponse(Returned(CountryWeightSeries(ord)))
  /\ UNCHANGED <<tables, request, fetched>>

\* _resolve_date_range on the strings of a request: the range, or the
\* ValueError of strptime.
ResolveDateStrings(gu, start_date, end_date) ==
  LET start == IF start_date.given THEN Strptime(start_date) ELSE Returned(None)
      end == IF end_date.given THEN Strptime(end_date) ELSE Returned(None)
  IN  IF ~start.returned \/ ~end.returned THEN Raised("ValueError")
      ELSE Returned(ResolveDateRange(gu,
                      IF start_date.given THEN Some(start.value) ELSE None,
                      IF end_date.given THEN Some(end.value) ELSE None))

\* SUM(weight_factor) over the rows of a group: NULL when every term is NULL.
RECURSIVE SumOrNull(_)
SumOrNull(rows) ==
  IF rows = {} THEN None
  ELSE LET r == CHOOSE x \in rows : TRUE
           rest == SumOrNull(rows \ {r})
       IN  IF r.weight_factor = None THEN rest
           ELSE Some(Val(r.weight_factor) + OrZero(rest))

\* The grouped rows of get_genius_weight_sum_time_series: GROUP BY
\* record_date, genius_level, coalesce(genius country, consultant country).
GeniusWeightSumRows(cu, gu, start, end, genius_levels, countries) ==
  LET joined == GeniusWeightRows(cu, gu, start, end, genius_levels, countries)
      Group(r) == {x \in joined : /\ x.record_date = r.record_date
                                  /\ x.genius_level = r.genius_level
                                  /\ x.country = r.country}
  IN  {[record_date |-> r.record_date, genius_level |-> r.genius_level,
        country |-> r.country, total_weight |-> SumOrNull(Group(r))]
       : r \in joined}

\* row.genius_level or "UNKNOWN", row.country or "UNKNOWN"
OrUnknown(o) == IF o = None \/ o = Some("") THEN "UNKNOWN" ELSE Val(o)

\* series_map of get_genius_weight_sum_time_series for the grouped rows
\* delivered in the order ord.  The key f"{level}|{country}" is the pair of
\* its two parts (no level or country name holds a bar).
GeniusWeightSumSeries(ord) ==
  LET keys == [i \in 1..Len(ord) |->
                 <<OrUnknown(ord[i].genius_level), OrUnknown(ord[i].country)>>]
      order == InsertionOrder(keys)
      Entry(k) ==
        LET rows == RowsOfKey(ord, keys, k)
        IN  [key |-> k, genius_level |-> k[1], country |-> k[2],
             dates |-> [i \in 1..Len(rows) |-> rows[i].record_date],
             weights |-> [i \in 1..Len(rows) |-> OrZero(rows[i].total_weight)]]
  IN  [i \in 1..Len(order) |-> Entry(order[i])]

\* One request of get_genius_weight_sum_time_series.
GetGeniusWeightSumTimeSeries ==
  /\ request.op = "genius_weight_sum_time_series"
  /\ response = Pending
  /\ LET range == ResolveDateStrings(geniusUser, request.start_date, request.end_date)
     IN  IF ~range.returned
         THEN /\ delivered' = NoRows
              /\ response' = EndpointResponse(Raised("ValueError"))
         ELSE IF range.value.start = None \/ range.value.end = None
         THEN /\ delivered' = NoRows
              /\ response' = EndpointResponse(Returned(<<>>))
         ELSE \E ord \in DateOrders(
                           GeniusWeightSumRows(consultantUser, geniusUser,
                             Val(range.value.start), Val(range.value.end),
                             request.genius_levels, request.countries)) :
                /\ delivered' = ord
                /\ response' = EndpointResponse(Returned(GeniusWeightSumSeries(ord)))
  /\ UNCHANGED <<tables, request, fetched>>

InitCountryWeightSeries ==
  /\ \E n \in 0..MaxCountries : \E prof \in [1..n -> SeriesProfiles] :
       \E with_null \in BOOLEAN :
         consultantCountry = SeriesConsultantCountryRows(prof, with_null)
  /\ geniusCountry = {}
  /\ consultantUniversity = {}
  /\ eventUpdateRecord = {}
  /\ redis = <<>>
  /\ consultantUser = {}
  /\ geniusUser = {}
  /\ \E countries \in SeriesCountryFilters, limit_days \in LimitDays :
       Arrived([op |-> "country_weight_time_series", countries |-> countries,
                limit_days |-> limit_days])

InitGeniusWeightSumSeries ==
  /\ InitWeightHistory
  /\ \E f \in WeightFilters, start_date \in DateStrings, end_date \in DateStrings :
       Arrived([op |-> "genius_weight_sum_time_series",
                genius_levels |-> f.genius_levels, countries |-> f.countries,
                start_date |-> start_date, end_date |-> end_date])

InitSeries ==
  \/ InitCountryWeightSeries
  \/ InitCountrySubmissionSeries
  \/ InitGeniusCountrySeries
  \/ InitGeniusWeightSumSeries

NextSeries ==
  \/ GetCountryWeightTimeSeries
  \/ GetCountrySubmissionTimeSeries
  \/ GetGeniusCountryTimeSeries
  \/ GetGeniusWeightSumTimeSeries

SpecSeries == InitSeries /\ [][NextSeries]_vars

-----------------------------------------------------------------------------
(* C14 *)

SeriesOps ==
  {"country_weight_time_series", "country_submission_time_series",
   "genius_country_time_series", "genius_weight_sum_time_series"}

\* The dates on which the stores hold a live row of the entity of entry e
\* of the answered operation.
DatesOfEntity(e) ==
  CASE response.op = "genius_country_time_series" ->
         {r.record_date : r \in {x \in geniusCountry :
                                   ~x.delete_flag /\ x.country = Some(e.country)}}
    [] response.op = "genius_weight_sum_time_series" ->
         {g.record_date : g \in {x \in geniusUser :
            /\ ~x.delete_flag
            /\ OrUnknown(x.genius_level) = e.genius_level
            /\ \E c \in consultantUser :
                 /\ ~c.delete_flag
                 /\ x.user = Some(c.user)
                 /\ c.record_date = x.record_date
                 /\ OrUnknown(Coalesce(<<x.country, c.country>>)) = e.country}}
    [] OTHER ->
         {r.record_date : r \in {x \in consultantCountry :
                                   ~x.delete_flag /\ x.country = Some(e.country)}}

\* The date range the answered operation resolved: no bound is None.
ResolvedRange ==
  CASE response.op = "country_weight_time_series" ->
         [start |-> Some(Val(LatestDate(consultantCountry)) - (request.limit_days - 1)),
          end |-> LatestDate(consultantCountry)]
    [] response.op = "country_submission_time_series" ->
         LET range == SubmissionDateRange(Val(LatestDate(consultantCountry)),
                        request.limit_days,
                        IF request.start_date.given
                        THEN Some(Strptime(request.start_date).value) ELSE None,
                        IF request.end_date.given
                        THEN Some(Strptime(request.end_date).value) ELSE None)
         IN  [start |-> Some(range.start), end |-> Some(range.end)]
    [] response.op = "genius_country_time_series" ->
         [start |-> IF request.start_date.given
                    THEN Some(Strptime(request.start_date).value) ELSE None,
          end |-> IF request.end_date.given
                  THEN Some(Strptime(request.end_date).value) ELSE None]
    [] OTHER ->
         ResolveDateStrings(geniusUser, request.start_date, request.end_date).value

InRange(d, range) ==
  /\ (range.start # None => d >= Val(range.start))
  /\ (range.end # None => d <= Val(range.end))

\* The entity of entry e is one the request asks for.
RequestedEntity(e) ==
  /\ (request.countries # {} => e.country \in request.countries)
  /\ (response.op = "genius_weight_sum_time_series" /\ request.genius_levels # {}
        => e.genius_level \in request.genius_levels)

EntityKey(e) ==
  IF response.op = "genius_weight_sum_time_series" THEN e.key ELSE e.country

\* C14: in the four per-entity time series every key of the result occurs
\* once and has a non-empty dates list in ascending order, each of its dates
\* is the date of a live row of that entity inside the resolved range (an
\* entity with no row in the range is absent), and when the request lists
\* entities only listed entities appear.
C14_SeriesOfEntitiesWithRows ==
  \A op \in SeriesOps :
    AnsweredWithResult(op) =>
      LET entries == response.body.value
      IN  /\ \A i, j \in 1..Len(entries) :
                EntityKey(entries[i]) = EntityKey(entries[j]) => i = j
          /\ \A i \in 1..Len(entries) :
               LET e == entries[i]
               IN  /\ Len(e.dates) >= 1
                   /\ \A a, b \in 1..Len(e.dates) : a < b => e.dates[a] <= e.dates[b]
                   /\ \A a \in 1..Len(e.dates) :
                        /\ e.dates[a] \in DatesOfEntity(e)
                        /\ InRange(e.dates[a], ResolvedRange)
                   /\ RequestedEntity(e)

\* A country with live rows, all of them before the range, is absent from a
\* result that holds another country with several dates.
C14_Witness ==
  /\ AnsweredWithResult("country_weight_time_series")
  /\ \E i \in 1..Len(response.body.value) : Len(response.body.value[i].dates) >= 2
  /\ \E r \in consultantCountry :
       /\ ~r.delete_flag
       /\ r.country # None
       /\ \A i \in 1..Len(response.body.value) :
            response.body.value[i].country # Val(r.country)

-----------------------------------------------------------------------------
(* parse_quarter and get_previous_quarter_end called on a quarter string of
   their own *)

\* datetime(year, month, day) raises ValueError for a year outside
\* MINYEAR .. MAXYEAR.
YearInRange(year) == year >= 1 /\ year <= 9999

\* parse_quarter with the exceptions of the datetime constructor.
ParseQuarterOutcome(quarter_str) ==
  IF quarter_str.given /\ quarter_str.matches /\ ~YearInRange(quarter_str.year)
  THEN Raised("ValueError")
  ELSE Returned(ParseQuarter(quarter_str))

\* get_previous_quarter_end with the exceptions of the datetime constructor.
GetPreviousQuarterEndOutcome(quarter_str) ==
  IF /\ quarter_str.matches
     /\ ~YearInRange(IF quarter_str.quarter = 1 THEN quarter_str.year - 1
                     ELSE quarter_str.year)
  THEN Raised("ValueError")
  ELSE Returned(GetPreviousQuarterEnd(quarter_str))

ApplyParseQuarter ==
  /\ request.op = "parse_quarter"
  /\ response = Pending
  /\ response' = [op |-> request.op, body |-> ParseQuarterOutcome(request.quarter)]
  /\ UNCHANGED <<tables, request, delivered, fetched>>

ApplyGetPreviousQuarterEnd ==
  /\ request.op = "get_previous_quarter_end"
  /\ response = Pending
  /\ response' = [op |-> request.op,
                  body |-> GetPreviousQuarterEndOutcome(request.quarter)]
  /\ UNCHANGED <<tables, request, delivered, fetched>>

\* The years of the quarter strings: the four digits 0000, 0001, 0002 and
\* 9999, and the years around 2026, leap years among them.
QuarterYears == {0, 1, 2, 9999} \cup ((2024 - MaxVal)..(2026 + MaxVal))

QuarterStrings ==
  {NoQuarter, MalformedQuarter}
  \cup {QuarterString(year, q) : year \in QuarterYears, q \in 1..4}

InitQuarter ==
  /\ consultantUser = {}
  /\ geniusUser = {}
  /\ consultantCountry = {}
  /\ geniusCountry = {}
  /\ consultantUniversity = {}
  /\ eventUpdateRecord = {}
  /\ redis = <<>>
  /\ \E op \in {"parse_quarter", "get_previous_quarter_end"},
        quarter \in QuarterStrings :
       Arrived([op |-> op, quarter |-> quarter])

NextQuarter == ApplyParseQuarter \/ ApplyGetPreviousQuarterEnd

SpecQuarter == InitQuarter /\ [][NextQuarter]_vars

-----------------------------------------------------------------------------
(* C15 *)

\* The day number of the calendar date year-month-day.
DayNumber(year, month, day) == FirstOfMonth(year, month) + day - 1

\* The last calendar day of a month.
LastDayOfMonth(year, month) == DayNumber(year, month, DaysInMonth(year, month))

\* C15: for every string "Y-Qn" with n in 1..4, parse_quarter returns the
\* first day of month 3(n-1)+1 and the last day of month 3n of year Y, and
\* get_previous_quarter_end returns the last day of month 3(n-1) of year Y,
\* or December 31 of year Y-1 when n = 1.
C15_QuarterDates ==
  /\ Answered("parse_quarter") /\ request.quarter.matches =>
       LET Y == request.quarter.year
           n == request.quarter.quarter
       IN  /\ response.body.returned
           /\ response.body.value =
                <<Some(DayNumber(Y, 3 * (n - 1) + 1, 1)), Some(LastDayOfMonth(Y, 3 * n))>>
  /\ Answered("get_previous_quarter_end") /\ request.quarter.matches =>
       LET Y == request.quarter.year
           n == request.quarter.quarter
       IN  /\ response.body.returned
           /\ response.body.value =
                IF n = 1 THEN Some(DayNumber(Y - 1, 12, 31))
                ELSE Some(LastDayOfMonth(Y, 3 * (n - 1)))

-----------------------------------------------------------------------------
(* C16 *)

\* The answer of a request rejected for its period.
InvalidPeriod == [error |-> "InvalidPeriodKind"]

\* C16: a quarter-based ranking asked with a non-empty quarter string that
\* does not match YYYY-Qn answers with the invalid-period error, never with
\* a ranking.
C16_MalformedQuarterRejected ==
  /\ Answered("top_users_by_weight_change")
  /\ request.quarter.given
  /\ ~request.quarter.matches
  => response.body = InvalidPeriod

-----------------------------------------------------------------------------
(* C17 *)

\* The operations of SpecSeries that take start_date and end_date.
DateOps ==
  {"country_submission_time_series", "genius_country_time_series",
   "genius_weight_sum_time_series"}

\* The string is given and is no valid YYYY-MM-DD date.
MalformedDate(s) == s.given /\ ~Strptime(s).returned

\* C17: a request whose start_date or end_date is not a valid YYYY-MM-DD
\* date ends with a client error (status 4xx), never with a server error,
\* and returns no result.
C17_MalformedDateIsClientError ==
  \A op \in DateOps :
    /\ Answered(op)
    /\ MalformedDate(request.start_date) \/ MalformedDate(request.end_date)
    => /\ response.status_code \in 400..499
       /\ ~response.body.returned

-----------------------------------------------------------------------------
(* C18 *)

\* Both dates of the request are valid and start_date is after end_date.
InvertedDates(req) ==
  /\ req.start_date.given /\ Strptime(req.start_date).returned
  /\ req.end_date.given /\ Strptime(req.end_date).returned
  /\ Strptime(req.start_date).value > Strptime(req.end_date).value

\* The request with its two dates exchanged.
ExchangedDates(req) ==
  [req EXCEPT !.start_date = req.end_date, !.end_date = req.start_date]

\* The results the operation can return over the stores for a request
\* whose two dates are given, valid and in order.
ResultsInOrder(req) ==
  LET start == Strptime(req.start_date).value
      end == Strptime(req.end_date).value
  IN  CASE req.op = "country_submission_time_series" ->
             IF LatestDate(consultantCountry) = None THEN {<<>>}
             ELSE {SubmissionSeries(ord) : ord \in CountryDateOrders(
                     {r \in consultantCountry :
                        /\ ~r.delete_flag
                        /\ r.country # None
                        /\ Val(r.country) \in CountriesOrAll(consultantCountry, req.countries)
                        /\ r.record_date >= start
                        /\ r.record_date <= end})}
        [] req.op = "genius_country_time_series" ->
             {GeniusCountrySeries(ord) : ord \in CountryDateOrders(
                GeniusCountryRows(geniusCountry,
                                  CountriesOrAll(geniusCountry, req.countries),
                                  Some(start), Some(end)))}
        [] req.op = "genius_weight_sum_time_series" ->
             {GeniusWeightSumSeries(ord) : ord \in DateOrders(
                GeniusWeightSumRows(consultantUser, geniusUser, start, end,
                                    req.genius_levels, req.countries))}

\* C18: a request with start_date > end_date does not fail and returns a
\* result of the request with the two dates exchanged.
C18_InvertedRangeExchanged ==
  \A op \in DateOps :
    Answered(op) /\ InvertedDates(request) =>
      /\ response.body.returned
      /\ response.body.value \in ResultsInOrder(ExchangedDates(request))

-----------------------------------------------------------------------------
(* C19 *)

\* The days on which user u has a live genius row and a live consultant
\* row that pass the level and country filters of the request.
JoinedDays(u) ==
  {g.record_date : g \in {x \in geniusUser :
     /\ ~x.delete_flag
     /\ x.user = Some(u)
     /\ (request.genius_levels # {} =>
           x.genius_level # None /\ Val(x.genius_level) \in request.genius_levels)
     /\ \E c \in consultantUser :
          /\ ~c.delete_flag
          /\ c.user = u
          /\ c.record_date = x.record_date
          /\ (request.countries # {} =>
                /\ Coalesce(<<x.country, c.country>>) # None
                /\ Val(Coalesce(<<x.country, c.country>>)) \in request.countries)}}

\* The entries of the answer that are of user u.
EntriesOf(u) == {i \in 1..Len(response.body) : response.body[i].user = u}

\* C19: in get_genius_user_weight_changes, when the resolved range is the
\* single day D a user with rows on D-1 and D has start_weight of D-1 and
\* end_weight of D; when start < end the start_weight of every entry is the
\* weight of the user's first day within [start, end], and a user with no
\* day in the range has no entry.
C19_SingleDayBaseline ==
  Answered("genius_user_weight_changes") =>
    LET range == ResolveDateRange(geniusUser, request.start_date, request.end_date)
    IN  range.start # None /\ range.end # None =>
          LET start == Val(range.start)
              end == Val(range.end)
          IN  /\ start = end =>
                   \A u \in {r.user : r \in consultantUser} :
                     {start - 1, start} \subseteq JoinedDays(u) =>
                       /\ EntriesOf(u) # {}
                       /\ \A i \in EntriesOf(u) :
                            /\ response.body[i].start_weight
                                 = OrZero(UserWeightOn(u, start - 1))
                            /\ response.body[i].end_weight
                                 = OrZero(UserWeightOn(u, start))
              /\ start < end =>
                   \A u \in {r.user : r \in consultantUser} :
                     LET days == {d \in JoinedDays(u) : d >= start /\ d <= end}
                     IN  /\ days = {} => EntriesOf(u) = {}
                         /\ \A i \in EntriesOf(u) :
                              response.body[i].start_weight
                                = OrZero(UserWeightOn(u, SetMin(days)))

\* A single day was asked and a user's weight of the day before is the
\* start_weight of a non-zero change.
C19_Witness ==
  /\ Answered("genius_user_weight_changes")
  /\ request.start_date = Some(11)
  /\ request.end_date = Some(11)
  /\ \E i \in 1..Len(response.body) :
       /\ response.body[i].start_weight = 80000
       /\ response.body[i].end_weight = 100004

-----------------------------------------------------------------------------
(* get_summary_statistics and its endpoint *)

\* SUM(column) over rows: NULL when no row carries a value.
RECURSIVE SumOfColumn(_, _)
SumOfColumn(rows, column) ==
  IF rows = {} THEN None
  ELSE LET r == CHOOSE x \in rows : TRUE
           rest == SumOfColumn(rows \ {r}, column)
       IN  IF r[column] = None THEN rest ELSE Some(Val(r[column]) + OrZero(rest))

\* a + b of SQL: NULL when a or b is NULL.
NullPlus(a, b) == IF a = None \/ b = None THEN None ELSE Some(Val(a) + Val(b))

\* current - historical if historical > 0 else current, historical a sum
\* that may be NULL.
ChangeSince(current, historical) ==
  LET historical_count == IF historical # None /\ Val(historical) > 0
                          THEN Val(historical) ELSE 0
  IN  IF historical_count > 0 THEN current - historical_count ELSE current

\* SELECT COUNT(*) ... WHERE delete_flag = 0
LiveCount(table) == Cardinality({r \in table : ~r.delete_flag})

\* get_summary_statistics; total_weight and weight_change in units of 10^-3.
SummaryStatisticsOf(cc, gc, gu, cu, cuni, days) ==
  LET latest_date == LatestDate(cc)
  IN  IF latest_date = None
      THEN [total_users |-> 0, user_change |-> 0, total_alpha |-> 0,
            total_weight |-> 0, weight_change |-> 0, total_records |-> 0,
            latest_record_date |-> None]
      ELSE LET start_date == Val(latest_date) - days
               current == LiveOn(cc, Val(latest_date))
               historical == LiveOn(cc, start_date)
               Alpha(rows) == NullPlus(SumOfColumn(rows, "submissions_count"),
                                       SumOfColumn(rows, "super_alpha_submissions_count"))
               current_users == OrZero(SumOfColumn(current, "user"))
               current_alpha == OrZero(Alpha(current))
               current_weight == OrZero(SumOfColumn(current, "weight_factor"))
           IN  [total_users |-> current_users,
                user_change |-> ChangeSince(current_users,
                                            SumOfColumn(historical, "user")),
                total_alpha |-> current_alpha,
                alpha_change |-> ChangeSince(current_alpha, Alpha(historical)),
                total_weight |-> Round2(current_weight),
                weight_change |-> Round2(ChangeSince(current_weight,
                                    SumOfColumn(historical, "weight_factor"))),
                total_records |-> LiveCount(gc) + LiveCount(gu) + LiveCount(cc)
                                    + LiveCount(cu) + LiveCount(cuni),
                latest_record_date |-> latest_date]

\* The fields of the SummaryStatistics schema that have no default.
SummaryStatisticsRequired ==
  {"total_users", "user_change", "total_alpha", "alpha_change", "total_weight",
   "weight_change", "total_records"}

\* SummaryStatistics(**stats): the validated model, or the ValidationError
\* of a missing required field.
SummaryStatistics(stats) ==
  IF SummaryStatisticsRequired \subseteq DOMAIN stats
  THEN Returned(stats)
  ELSE Raised("ValidationError")

\* One request of the summary-statistics endpoint.
GetSummaryStatistics ==
  /\ request.op = "summary_statistics"
  /\ response = Pending
  /\ response' = EndpointResponse(SummaryStatistics(
                   SummaryStatisticsOf(consultantCountry, geniusCountry, geniusUser,
                                       consultantUser, consultantUniversity,
                                       request.days)))
  /\ UNCHANGED <<tables, request, delivered, fetched>>

\* The rows of prof with their user counts; removed: every row is deleted.
SummaryCountryRows(prof, with_null, removed) ==
  {[r EXCEPT !.user = r.submissions_count,
             !.delete_flag = r.delete_flag \/ removed]
     : r \in SeriesConsultantCountryRows(prof, with_null)}

\* A row of leaderboard_consultant_university.
ConsultantUniversityRow(u, d, deleted) ==
  [university |-> u, record_date |-> d, delete_flag |-> deleted]

UniversityTables ==
  {{}, {ConsultantUniversityRow("MIT", 11, TRUE)},
   {ConsultantUniversityRow("MIT", 11, FALSE)}}

InitSummaryStatistics ==
  /\ \E n \in 0..MaxCountries : \E prof \in [1..n -> SeriesProfiles] :
       \E with_null \in BOOLEAN, removed \in BOOLEAN :
         consultantCountry = SummaryCountryRows(prof, with_null, removed)
  /\ geniusCountry = {}
  /\ consultantUser = {}
  /\ geniusUser = {}
  /\ consultantUniversity \in UniversityTables
  /\ eventUpdateRecord = {}
  /\ redis = <<>>
  /\ \E days \in Lookbacks : Arrived([op |-> "summary_statistics", days |-> days])

NextSummaryStatistics == GetSummaryStatistics

SpecSummaryStatistics == InitSummaryStatistics /\ [][NextSummaryStatistics]_vars

-----------------------------------------------------------------------------
(* C20 *)

\* No table holds a row that is not deleted.
EmptyStore ==
  \A table \in {consultantUser, geniusUser, consultantCountry, geniusCountry,
                consultantUniversity} :
    \A r \in table : r.delete_flag

\* C20: over a store with no live row get_summary_statistics answers
\* successfully with every field of its normal result, the counts and sums
\* zero.
C20_EmptyStoreAnswersZeroes ==
  Answered("summary_statistics") /\ EmptyStore =>
    /\ response.status_code = 200
    /\ response.body.returned
    /\ DOMAIN response.body.value =
         SummaryStatisticsRequired \cup {"latest_record_date"}
    /\ \A field \in SummaryStatisticsRequired : response.body.value[field] = 0

-----------------------------------------------------------------------------
(* The quarter-based rankings get_country_rankings and
   get_university_rankings *)

\* func.max(record_date) over the live rows dated before d
LatestDateBefore(table, d) ==
  LatestDate({r \in table : r.record_date < d})

\* The latest_date and start_date get_country_rankings resolves.
CountryComparisonDates(cc, quarter) ==
  LET quarter_end == ParseQuarter(quarter)[2]
      latest_date == IF quarter_end = None THEN LatestDate(cc)
                     ELSE LatestDateUpTo(cc, Val(quarter_end))
      compare_date == GetPreviousQuarterEnd(quarter)
      start_date == IF latest_date = None THEN None
                    ELSE IF quarter.given
                    THEN IF compare_date # None
                         THEN LatestDateUpTo(cc, Val(compare_date))
                         ELSE None
                    ELSE LatestDateBefore(cc, Val(latest_date))
  IN  [latest_date |-> latest_date, start_date |-> start_date]

\* current_stats / historical_stats: the live rows of date d with a country.
CountryStatsOn(cc, d) ==
  {r \in cc : ~r.delete_flag /\ r.record_date = d /\ r.country # None}

\* current_stats LEFT OUTER JOIN historical_stats ON country; without
\* start_date the historical columns are the literal NULL.
CountryRankingRows(cc, dates) ==
  LET historical == IF dates.start_date = None THEN {}
                    ELSE CountryStatsOn(cc, Val(dates.start_date))
      Joined(c) ==
        LET matches == {h \in historical : h.country = c.country}
        IN  IF matches = {}
            THEN {[weight_factor |-> None, submissions_count |-> None,
                   super_alpha_submissions_count |-> None]}
            ELSE {[weight_factor |-> h.weight_factor,
                   submissions_count |-> h.submissions_count,
                   super_alpha_submissions_count |-> h.super_alpha_submissions_count]
                    : h \in matches}
  IN  UNION {{[country |-> Val(c.country), record_date |-> c.record_date,
               user_count |-> c.user,
               weight_factor |-> c.weight_factor,
               submissions_count |-> c.submissions_count,
               super_alpha_submissions_count |-> c.super_alpha_submissions_count,
               historical_weight_factor |-> h.weight_factor,
               historical_submissions_count |-> h.submissions_count,
               historical_super_alpha_submissions_count |->
                 h.super_alpha_submissions_count]
                : h \in Joined(c)}
               : c \in CountryStatsOn(cc, Val(dates.latest_date))}

\* ORDER BY weight_factor DESC: a NULL weight_factor after every value
\* (weights are not negative).
WeightDescendingOrders(rows) ==
  AscendingOrders(rows, [r \in rows |->
                           IF r.weight_factor = None THEN 1 ELSE -Val(r.weight_factor)])

\* current - historical when both are present, else None
ChangeOrNone(current, historical) ==
  IF historical # None /\ current # None THEN Some(Val(current) - Val(historical))
  ELSE None

\* One output row of get_country_rankings (the value_factor and correlation
\* columns, copied and differenced like weight_factor, are left out).
CountryRankingItem(row) ==
  LET weight_change == ChangeOrNone(row.weight_factor, row.historical_weight_factor)
      submissions_change ==
        ChangeOrNone(row.submissions_count, row.historical_submissions_count)
      super_alpha_submissions_change ==
        ChangeOrNone(row.super_alpha_submissions_count,
                     row.historical_super_alpha_submissions_count)
  IN  [country |-> row.country,
       user_count |-> OrZero(row.user_count),
       weight_factor |-> Round2(OrZero(row.weight_factor)),
       submissions_count |-> OrZero(row.submissions_count),
       super_alpha_submissions_count |-> OrZero(row.super_alpha_submissions_count),
       total_submissions |-> OrZero(row.submissions_count)
                               + OrZero(row.super_alpha_submissions_count),
       weight_change |-> IF weight_change = None THEN None
                         ELSE Some(Round2(Val(weight_change))),
       submissions_change |-> submissions_change,
       super_alpha_submissions_change |-> super_alpha_submissions_change,
       total_submissions_change |->
         IF submissions_change # None /\ super_alpha_submissions_change # None
         THEN Some(Val(submissions_change) + Val(super_alpha_submissions_change))
         ELSE IF submissions_change # None THEN submissions_change
         ELSE super_alpha_submissions_change]

\* get_country_rankings on the rows delivered as ord.
CountryRankings(ord, page, page_size) ==
  LET offset == (page - 1) * page_size
      results == Slice(ord, offset, offset + page_size)
  IN  [total |-> Len(ord),
       items |-> [i \in 1..Len(results) |-> CountryRankingItem(results[i])]]

GetCountryRankings ==
  /\ request.op = "country_rankings"
  /\ response = Pending
  /\ LET dates == CountryComparisonDates(consultantCountry, request.quarter)
     IN  IF dates.latest_date = None
         THEN /\ delivered' = NoRows
              /\ response' = [op |-> request.op, body |-> [total |-> 0, items |-> <<>>]]
         ELSE \E ord \in WeightDescendingOrders(
                           CountryRankingRows(consultantCountry, dates)) :
                /\ delivered' = ord
                /\ response' = [op |-> request.op,
                                body |-> CountryRankings(ord, request.page,
                                                         request.page_size)]
  /\ UNCHANGED <<tables, request, fetched>>

\* The latest_date get_university_rankings resolves.
UniversityLatestDate(cu, quarter) ==
  LET quarter_end == ParseQuarter(quarter)[2]
  IN  IF quarter_end = None THEN LatestDate(cu)
      ELSE LatestDateUpTo(cu, Val(quarter_end))

\* SUM(submissions_count + super_alpha_submissions_count) over rows: a row
\* with a NULL count adds nothing, NULL when no row adds.
RECURSIVE SumOfSubmissions(_)
SumOfSubmissions(rows) ==
  IF rows = {} THEN None
  ELSE LET r == CHOOSE x \in rows : TRUE
           rest == SumOfSubmissions(rows \ {r})
           term == NullPlus(r.submissions_count, r.super_alpha_submissions_count)
       IN  IF term = None THEN rest ELSE Some(Val(term) + OrZero(rest))

\* The grouped rows of get_university_rankings: GROUP BY university over
\* the live weighted rows of latest_date with a non-empty university.
UniversityRankingRows(cu, latest_date) ==
  LET rows == {r \in WeightedOn(cu, Some(latest_date)) :
                 r.university # None /\ r.university # Some("")}
      Group(uni) == {r \in rows : r.university = uni}
  IN  {[university |-> Val(uni),
        record_date |-> latest_date,
        user_count |-> Cardinality({r.user : r \in Group(uni)}),
        weight_sum |-> SumOfWeights(Group(uni)),
        weight_count |-> Cardinality(Group(uni)),
        max_weight |-> SetMax({Val(r.weight_factor) : r \in Group(uni)}),
        total_submissions |-> SumOfSubmissions(Group(uni))]
       : uni \in {r.university : r \in rows}}

\* ORDER BY AVG(weight_factor) DESC: groups of up to ten rows compared by
\* 2520 times their average.
AverageDescendingOrders(rows) ==
  AscendingOrders(rows, [r \in rows |-> -((r.weight_sum * 2520) \div r.weight_count)])

\* One output row of get_university_rankings.
UniversityRankingItem(row) ==
  [university |-> row.university,
   user_count |-> row.user_count,
   avg_weight |-> 10 * RoundHalfEven(row.weight_sum, 10 * row.weight_count),
   max_weight |-> Round2(row.max_weight),
   total_submissions |-> OrZero(row.total_submissions)]

\* get_university_rankings on the groups delivered as ord.
UniversityRankings(ord, page, page_size) ==
  LET offset == (page - 1) * page_size
      results == Slice(ord, offset, offset + page_size)
  IN  [total |-> Len(ord),
       items |-> [i \in 1..Len(results) |-> UniversityRankingItem(results[i])]]

GetUniversityRankings ==
  /\ request.op = "university_rankings"
  /\ response = Pending
  /\ LET latest_date == UniversityLatestDate(consultantUser, request.quarter)
     IN  IF latest_date = None
         THEN /\ delivered' = NoRows
              /\ response' = [op |-> request.op, body |-> [total |-> 0, items |-> <<>>]]
         ELSE \E ord \in AverageDescendingOrders(
                           UniversityRankingRows(consultantUser, Val(latest_date))) :
                /\ delivered' = ord
                /\ response' = [op |-> request.op,
                                body |-> UniversityRankings(ord, request.page,
                                                            request.page_size)]
  /\ UNCHANGED <<tables, request, fetched>>

\* The stores of the quarter-based rankings.  An entity (a user, a country)
\* has the rows of one profile: the date of a row, its weight_factor and
\* whether it is deleted; a user has a country and a university besides.
QuarterDay(year, month, day, w, deleted) ==
  [date |-> FirstOfMonth(year, month) + day - 1, weight |-> w, deleted |-> deleted]

QuarterProfile(days, c, uni) == [days |-> days, country |-> c, university |-> uni]

QuarterProfiles ==
  { QuarterProfile({QuarterDay(2025, 12, 31, Some(5000), FALSE),
                    QuarterDay(2026, 3, 31, Some(7004), FALSE),
                    QuarterDay(2026, 4, 1, Some(9000), FALSE)}, Some("CN"), Some("MIT")),
    QuarterProfile({QuarterDay(2025, 9, 20, Some(1000), FALSE),
                    QuarterDay(2025, 12, 23, Some(3000), FALSE),
                    QuarterDay(2026, 2, 10, Some(2000), FALSE),
                    QuarterDay(2026, 3, 31, Some(4000), TRUE)}, Some("US"), Some("MIT")),
    QuarterProfile({QuarterDay(2026, 4, 1, Some(6000), FALSE)}, None, Some("")),
    QuarterProfile({QuarterDay(2025, 12, 31, None, FALSE),
                    QuarterDay(2026, 3, 31, Some(7004), FALSE)}, Some("CN"), Some("CMU")) }

\* submissions_count of a row of the stores: its weight in whole units.
QuarterCount(w) == IF w = None THEN None ELSE Some(Val(w) \div 1000)

QuarterConsultantUserRows(prof) ==
  UNION {{[ConsultantUserRow(u, d.date, d.weight, None, prof[u].country,
                             prof[u].university, QuarterCount(d.weight), Some(1))
             EXCEPT !.delete_flag = d.deleted] : d \in prof[u].days}
           : u \in DOMAIN prof}

QuarterConsultantCountryRows(prof) ==
  UNION {{[ConsultantCountryCountsRow(Some(CountryNames[i]), d.date, d.weight,
                                      QuarterCount(d.weight), Some(1), d.deleted)
             EXCEPT !.user = Some(2)] : d \in prof[i].days}
           : i \in DOMAIN prof}

\* The quarter parameter: none, three quarters and a malformed string.
RankingQuarters ==
  {NoQuarter, QuarterString(2025, 4), QuarterString(2026, 1), QuarterString(2026, 2),
   MalformedQuarter}

InitCountryRankings ==
  /\ \E n \in 0..MaxCountries : \E prof \in [1..n -> QuarterProfiles] :
       consultantCountry = QuarterConsultantCountryRows(prof)
  /\ consultantUser = {}
  /\ geniusUser = {}
  /\ geniusCountry = {}
  /\ consultantUniversity = {}
  /\ eventUpdateRecord = {}
  /\ redis = <<>>
  /\ \E page \in 1..2, page_size \in 1..MaxPageSize, quarter \in RankingQuarters :
       Arrived([op |-> "country_rankings", page |-> page, page_size |-> page_size,
                quarter |-> quarter])

InitUserRankings ==
  /\ \E n \in 0..MaxUsers : \E prof \in [1..n -> QuarterProfiles] :
       consultantUser = QuarterConsultantUserRows(prof)
  /\ consultantCountry = {}
  /\ geniusUser = {}
  /\ geniusCountry = {}
  /\ consultantUniversity = {}
  /\ eventUpdateRecord = {}
  /\ redis = <<>>
  /\ \/ \E page_size \in 1..MaxPageSize, quarter \in RankingQuarters :
          Arrived([op |-> "university_rankings", page |-> 1, page_size |-> page_size,
                   quarter |-> quarter])
     \/ \E page_size \in 1..MaxPageSize, quarter \in RankingQuarters,
           order \in SortOrders, country \in {None, Some("CN")} :
          Arrived(TopUsersByWeightChangeRequest(1, page_size, quarter, order, country))

InitQuarterRankings == InitCountryRankings \/ InitUserRankings

NextQuarterRankings ==
  \/ GetCountryRankings
  \/ GetUniversityRankings
  \/ GetTopUsersByWeightChange

SpecQuarterRankings == InitQuarterRankings /\ [][NextQuarterRankings]_vars

-----------------------------------------------------------------------------
(* C21 *)

QuarterRankingOps == {"country_rankings", "university_rankings", "top_users_by_weight_change"}

\* The table whose dates the answered ranking resolves.
RankedTable ==
  IF response.op = "country_rankings" THEN consultantCountry ELSE consultantUser

\* The greatest record_date of a live row of the table that is not after
\* bound: None when there is none.
GreatestLiveDate(table, bound) ==
  LET dates == {r.record_date : r \in {x \in table : ~x.delete_flag}}
  IN  IF \E d \in dates : d <= bound
      THEN Some(CHOOSE d \in dates : d <= bound /\ \A e \in dates : e <= bound => e <= d)
      ELSE None

\* The last day of the quarter "Y-Qn" and of the quarter before it.
QuarterLastDay(q) == LastDayOfMonth(q.year, 3 * q.quarter)

PreviousQuarterLastDay(q) ==
  IF q.quarter = 1 THEN DayNumber(q.year - 1, 12, 31)
  ELSE LastDayOfMonth(q.year, 3 * (q.quarter - 1))

\* The current snapshot date the claim names: with a quarter the greatest
\* live date up to its last day, without one the greatest live date.
ClaimedCurrentDate ==
  IF request.quarter.given
  THEN GreatestLiveDate(RankedTable, QuarterLastDay(request.quarter))
  ELSE LatestDate(RankedTable)

ClaimedBaselineDate ==
  GreatestLiveDate(RankedTable, PreviousQuarterLastDay(request.quarter))

\* The value of column of the live row of table with key[field] = e on date
\* d (None: no date), None when there is no such row.
ValueOn(table, field, e, d, column) ==
  LET rows == {r \in table : /\ ~r.delete_flag
                             /\ d # None
                             /\ r.record_date = Val(d)
                             /\ r[field] = e}
  IN  IF rows = {} THEN None ELSE (CHOOSE r \in rows : TRUE)[column]

\* C21: a quarter-based ranking asked with a valid quarter ranks the rows of
\* the greatest live record_date that is not after the quarter's last day
\* against the rows of the greatest live record_date that is not after the
\* previous quarter's last day, no later row contributing; asked with no
\* quarter it ranks the rows of the greatest live record_date.
C21_QuarterSnapshotDates ==
  \A op \in QuarterRankingOps :
    Answered(op) /\ (request.quarter.given => request.quarter.matches) =>
      LET current == ClaimedCurrentDate
      IN  /\ response.body.total = Len(delivered)
          /\ current = None => delivered = <<>>
          /\ op = "country_rankings" =>
               /\ {delivered[i].country : i \in 1..Len(delivered)}
                    = {Val(r.country) : r \in {x \in consultantCountry :
                         /\ ~x.delete_flag
                         /\ x.country # None
                         /\ Some(x.record_date) = current}}
               /\ \A i \in 1..Len(delivered) :
                    LET row == delivered[i]
                        Current(column) ==
                          ValueOn(consultantCountry, "country", Some(row.country),
                                  current, column)
                        Baseline(column) ==
                          ValueOn(consultantCountry, "country", Some(row.country),
                                  ClaimedBaselineDate, column)
                    IN  /\ row.weight_factor = Current("weight_factor")
                        /\ row.submissions_count = Current("submissions_count")
                        /\ request.quarter.given =>
                             /\ row.historical_weight_factor = Baseline("weight_factor")
                             /\ row.historical_submissions_count
                                  = Baseline("submissions_count")
          /\ op = "university_rankings" =>
               \A i \in 1..Len(delivered) :
                 LET rows == {r \in consultantUser :
                                /\ ~r.delete_flag
                                /\ Some(r.record_date) = current
                                /\ r.weight_factor # None
                                /\ r.university = Some(delivered[i].university)}
                 IN  /\ rows # {}
                     /\ delivered[i].user_count = Cardinality({r.user : r \in rows})
                     /\ delivered[i].max_weight
                          = SetMax({Val(r.weight_factor) : r \in rows})
          /\ op = "top_users_by_weight_change" =>
               /\ {delivered[i].user : i \in 1..Len(delivered)}
                    = {r.user : r \in {x \in consultantUser :
                         /\ ~x.delete_flag
                         /\ Some(x.record_date) = current
                         /\ x.weight_factor # None
                         /\ (request.country # None => x.country = request.country)}}
               /\ \A i \in 1..Len(delivered) :
                    LET row == delivered[i]
                    IN  /\ Some(row.current_weight)
                             = ValueOn(consultantUser, "user", row.user, current,
                                       "weight_factor")
                        /\ request.quarter.given =>
                             row.historical_weight
                               = ValueOn(consultantUser, "user", row.user,
                                         ClaimedBaselineDate, "weight_factor")

\* A country ranking of 2026-Q1 over a store with a live row on 2026-04-01:
\* the first country is ranked by its row of 2026-03-31 against its row of
\* 2025-12-31.
C21_Witness ==
  /\ Answered("country_rankings")
  /\ request.quarter = QuarterString(2026, 1)
  /\ \E r \in consultantCountry : ~r.delete_flag /\ r.record_date = DayNumber(2026, 4, 1)
  /\ Len(response.body.items) >= 1
  /\ response.body.items[1].weight_factor = 7000
  /\ response.body.items[1].weight_change = Some(2000)

-----------------------------------------------------------------------------
(* The top lists of get_value_factor_analysis over more rows than they hold *)

MaxRows == 24

\* A row the outer joins of get_value_factor_analysis deliver for user u: the
\* base value is 0.5 and the target value follows the pattern (k, m) in steps
\* below the rounding precision; every eleventh user has no target value.
TopListRow(u, k, m) ==
  [user |-> u,
   target_value_factor |->
     IF u % 11 = 0 THEN None ELSE Some(Half + (((u * k) % m) - (m \div 2)) * 3),
   base_value_factor |-> Some(Half),
   country |-> IF u % 2 = 0 THEN Some("CN") ELSE Some("US"),
   university |-> None]

\* The rows of n users in the order the store delivers them: by user,
\* ascending or descending.
TopListRows(n, k, m, descending) ==
  [i \in 1..n |-> TopListRow(IF descending THEN n + 1 - i ELSE i, k, m)]

InitTopLists ==
  /\ consultantUser = {}
  /\ geniusUser = {}
  /\ consultantCountry = {}
  /\ geniusCountry = {}
  /\ consultantUniversity = {}
  /\ eventUpdateRecord = {}
  /\ redis = <<>>
  /\ \E n \in 0..MaxRows, k \in {1, 3, 7}, m \in {1, 2, 5, 23},
        descending \in BOOLEAN, exclude_both_half \in BOOLEAN :
       Arrived([op |-> "value_factor_analysis_of_rows",
                rows |-> TopListRows(n, k, m, descending),
                exclude_both_half |-> exclude_both_half])

\* get_value_factor_analysis from the rows of its query on.
ApplyValueFactorAnalysis ==
  /\ request.op = "value_factor_analysis_of_rows"
  /\ response = Pending
  /\ delivered' = request.rows
  /\ response' = [op |-> request.op,
                  body |-> ValueFactorAnalysis(request.rows, request.exclude_both_half)]
  /\ UNCHANGED <<tables, request, fetched>>

SpecTopLists == InitTopLists /\ [][ApplyValueFactorAnalysis]_vars

-----------------------------------------------------------------------------
(* C22 *)

\* The delivered rows that are comparable after the exclusion.
ComparableIndices ==
  {i \in 1..Len(delivered) :
     /\ delivered[i].target_value_factor # None
     /\ delivered[i].base_value_factor # None
     /\ ~(/\ request.exclude_both_half
          /\ Abs(Val(delivered[i].base_value_factor) - Half) < 1
          /\ Abs(Val(delivered[i].target_value_factor) - Half) < 1)}

DeliveredChange(i) ==
  Val(delivered[i].target_value_factor) - Val(delivered[i].base_value_factor)

\* The number of comparable rows that a descending (ascending) sort by change
\* keeping ties in input order puts before row i.
GainersBefore(i) ==
  Cardinality({j \in ComparableIndices :
                 \/ DeliveredChange(j) > DeliveredChange(i)
                 \/ DeliveredChange(j) = DeliveredChange(i) /\ j < i})

DeclinersBefore(i) ==
  Cardinality({j \in ComparableIndices :
                 \/ DeliveredChange(j) < DeliveredChange(i)
                 \/ DeliveredChange(j) = DeliveredChange(i) /\ j < i})

\* C22: top_gainers holds the first min(20, comparable_users) comparable rows
\* in descending order of change and top_decliners the first
\* min(20, comparable_users) in ascending order of change, rows of equal
\* change in input order; every listed user is a comparable one.
C22_TopListsAreSortedPrefixes ==
  Answered("value_factor_analysis_of_rows") =>
    LET body == response.body
        size == Min2(20, Cardinality(ComparableIndices))
    IN  /\ body.summary.comparable_users = Cardinality(ComparableIndices)
        /\ Len(body.top_gainers) = size
        /\ Len(body.top_decliners) = size
        /\ \A i \in ComparableIndices :
             /\ GainersBefore(i) < 20 =>
                  /\ body.top_gainers[GainersBefore(i) + 1].user = delivered[i].user
                  /\ body.top_gainers[GainersBefore(i) + 1].change
                       = Round4(DeliveredChange(i))
             /\ DeclinersBefore(i) < 20 =>
                  /\ body.top_decliners[DeclinersBefore(i) + 1].user = delivered[i].user
                  /\ body.top_decliners[DeclinersBefore(i) + 1].change
                       = Round4(DeliveredChange(i))
        /\ \A k \in 1..size :
             /\ \E i \in ComparableIndices : delivered[i].user = body.top_gainers[k].user
             /\ \E i \in ComparableIndices : delivered[i].user = body.top_decliners[k].user

\* More than 20 comparable rows with ties, one of them left out of
\* top_gainers and another out of top_decliners, and a row excluded.
C22_Witness ==
  /\ Answered("value_factor_analysis_of_rows")
  /\ Cardinality(ComparableIndices) > 20
  /\ Cardinality(ComparableIndices) < Len(delivered) - 2
  /\ \E i, j \in ComparableIndices : i # j /\ DeliveredChange(i) = DeliveredChange(j)
  /\ \E i \in ComparableIndices : GainersBefore(i) >= 20
  /\ \E i \in ComparableIndices : DeclinersBefore(i) >= 20
  /\ Len(response.body.top_gainers) = 20

-----------------------------------------------------------------------------
(* C23 *)

\* The comparable delivered rows of a country and the sum of their changes,
\* unrounded.
ComparableOf(country) ==
  {i \in ComparableIndices : delivered[i].country = Some(country)}

RECURSIVE SumOfChanges(_)
SumOfChanges(indices) ==
  IF indices = {} THEN 0
  ELSE LET i == CHOOSE x \in indices : TRUE
       IN  DeliveredChange(i) + SumOfChanges(indices \ {i})

\* The unrounded mean change of country a is not below that of country b.
MeanChangeNotBelow(a, b) ==
  SumOfChanges(ComparableOf(a)) * Cardinality(ComparableOf(b))
    >= SumOfChanges(ComparableOf(b)) * Cardinality(ComparableOf(a))

\* The unrounded change of the comparable user of an output item.
UnroundedChangeOf(user) ==
  DeliveredChange(CHOOSE i \in ComparableIndices : delivered[i].user = user)

\* C23: rounding is applied to the output only: the top lists follow the
\* unrounded changes, the classification counts the exact signs, and the
\* dimension groups of equal size follow their unrounded mean changes, also
\* where two values differ below the rounding precision.
C23_OrderIsOfUnroundedValues ==
  Answered("value_factor_analysis_of_rows") =>
    LET body == response.body
    IN  /\ \A k \in 1..(Len(body.top_gainers) - 1) :
             UnroundedChangeOf(body.top_gainers[k].user)
               >= UnroundedChangeOf(body.top_gainers[k + 1].user)
        /\ body.summary.increased_users
             = Cardinality({i \in ComparableIndices : DeliveredChange(i) > 0})
        /\ body.summary.unchanged_users
             = Cardinality({i \in ComparableIndices : DeliveredChange(i) = 0})
        /\ \A k \in 1..(Len(body.by_country) - 1) :
             body.by_country[k].comparable_users = body.by_country[k + 1].comparable_users
               => MeanChangeNotBelow(body.by_country[k].dimension,
                                     body.by_country[k + 1].dimension)

-----------------------------------------------------------------------------
(* C24 *)

\* The three counts of a summary or of a dimension group add up to n.
CountsPartition(entry, n) ==
  entry.increased_users + entry.decreased_users + entry.unchanged_users = n

\* The counts of a dimension group are those of the exact signs of the
\* changes of its retained users.
GroupCountsBySign(group, key_name) ==
  LET members == {u \in Retained : DimensionOf(u, key_name) = group.dimension}
  IN  /\ group.comparable_users = Cardinality(members)
      /\ group.increased_users = Cardinality({u \in members : ChangeOf(u) > 0})
      /\ group.decreased_users = Cardinality({u \in members : ChangeOf(u) < 0})
      /\ group.unchanged_users = Cardinality({u \in members : ChangeOf(u) = 0})

\* C24: every comparable row is counted once, as increased (delta > 0),
\* decreased (delta < 0) or unchanged (delta = 0): the three counts add up to
\* comparable_users in the summary of get_value_factor_analysis, in every
\* dimension group and in every metric summary of get_combined_analysis.
C24_ClassificationPartitions ==
  /\ Answered("value_factor_analysis") =>
       LET b == response.body
       IN  /\ CountsPartition(b.summary, b.summary.comparable_users)
           /\ \A i \in 1..Len(b.by_country) :
                /\ CountsPartition(b.by_country[i], b.by_country[i].comparable_users)
                /\ GroupCountsBySign(b.by_country[i], "country")
           /\ \A i \in 1..Len(b.by_university) :
                /\ CountsPartition(b.by_university[i], b.by_university[i].comparable_users)
                /\ GroupCountsBySign(b.by_university[i], "university")
  /\ Answered("combined_analysis") =>
       \A k \in 1..3 :
         CountsPartition(response.body.metric_summaries[k],
                         response.body.summary.comparable_users)

\* An analysis with an increased, a decreased and an unchanged user, each
\* in a dimension group of its own.
C24_Witness ==
  /\ Answered("value_factor_analysis")
  /\ response.body.summary.increased_users = 1
  /\ response.body.summary.decreased_users = 1
  /\ response.body.summary.unchanged_users = 1
  /\ \E i, j \in 1..Len(response.body.by_country) :
       /\ response.body.by_country[i].unchanged_users = 1
       /\ response.body.by_country[j].decreased_users = 1

-----------------------------------------------------------------------------
(* Invocations of the aggregation operations, one after another and
   overlapping.  The service modules hold no variable beside their date
   constants and every invocation gets a database session of its own, so an
   invocation in flight is its parameters and the rows its queries returned.
   In this specification request and delivered hold these per worker, and
   fetched is the record of the finished invocations. *)

MaxInvocations == 3

Workers == {1, 2}

Idle == [op |-> "idle"]

\* The store of n users: their consultant rows, their genius rows and the
\* rows of n countries.
InvocationProfiles(n) == [u \in 1..n |-> VFComparableProfiles[u + 1]]

InvocationFigures(n) == [u \in 1..n |-> CombinedComparableProfiles[u + 1]]

InvocationCountries(n) ==
  [i \in 1..n |->
     IF i = 1
     THEN QuarterProfile({QuarterDay(2025, 12, 31, Some(5000), FALSE),
                          QuarterDay(2026, 3, 31, Some(7004), FALSE),
                          QuarterDay(2026, 4, 1, Some(1000), FALSE)}, None, None)
     ELSE QuarterProfile({QuarterDay(2026, 3, 31, Some(4000), FALSE),
                          QuarterDay(2026, 4, 1, Some(6000), FALSE)}, None, None)]

InvocationRequests ==
  { ValueFactorUserChangesRequest("change", "desc", 1, 1, NoValueFactorFilter),
    ValueFactorUserChangesRequest("change", "asc", 1, 1, NoValueFactorFilter),
    CombinedUserChangesRequest("alpha_change", "desc", 1, 1, NoCombinedFilter),
    [op |-> "country_rankings", page |-> 1, page_size |-> 1, quarter |-> NoQuarter],
    [op |-> "country_rankings", page |-> 1, page_size |-> 1,
     quarter |-> QuarterString(2026, 1)] }

\* The rows the queries of an invocation may return.
RowsReturned(req) ==
  CASE req.op = "value_factor_user_changes" ->
         Orders(ValueFactorUserRows(consultantUser, geniusUser))
    [] req.op = "combined_user_changes" -> Orders(CombinedUserRows(geniusUser))
    [] req.op = "country_rankings" ->
         LET dates == CountryComparisonDates(consultantCountry, req.quarter)
         IN  IF dates.latest_date = None THEN {NoRows}
             ELSE WeightDescendingOrders(CountryRankingRows(consultantCountry, dates))

\* What an operation returns for its parameters, asked for the given page,
\* from the rows its queries returned.
ResultOfPage(req, rows, page) ==
  CASE req.op = "value_factor_user_changes" ->
         ValueFactorUserChanges(rows, req.sort_by, req.sort_order, page, req.page_size,
                                req.countries, req.genius_levels, req.exclude_both_half)
    [] req.op = "combined_user_changes" ->
         CombinedUserChanges(rows, req.sort_by, req.sort_order, page, req.page_size,
                             req.countries, req.genius_levels,
                             req.exclude_alpha_both_zero, req.exclude_power_pool_both_zero,
                             req.exclude_selected_both_zero)
    [] req.op = "country_rankings" ->
         IF CountryComparisonDates(consultantCountry, req.quarter).latest_date = None
         THEN [total |-> 0, items |-> <<>>]
         ELSE CountryRankings(rows, page, req.page_size)

\* An operation that kept a cursor between invocations.
InvocationResultWithCursor(req, rows) == ResultOfPage(req, rows, req.page + Len(fetched))

\* get_value_factor_user_changes, get_combined_user_changes and
\* get_country_rankings: the result of an invocation.
InvocationResult(req, rows) == ResultOfPage(req, rows, req.page)

InFlight == {w \in Workers : request[w] # Idle}

InitInvocations ==
  /\ \E n \in 0..2 :
       /\ consultantUser = VFConsultantRows(InvocationProfiles(n))
       /\ geniusUser = CombinedGeniusRows(InvocationFigures(n))
       /\ consultantCountry = QuarterConsultantCountryRows(InvocationCountries(n))
  /\ geniusCountry = {}
  /\ consultantUniversity = {}
  /\ eventUpdateRecord = {}
  /\ redis = <<>>
  /\ request = [w \in Workers |-> Idle]
  /\ delivered = [w \in Workers |-> NoRows]
  /\ response = Pending
  /\ fetched = <<>>

\* A worker takes a request and runs the queries of its operation.
BeginInvocation(w) ==
  /\ request[w] = Idle
  /\ Len(fetched) + Cardinality(InFlight) < MaxInvocations
  /\ \E req \in InvocationRequests : \E rows \in RowsReturned(req) :
       /\ request' = [request EXCEPT ![w] = req]
       /\ delivered' = [delivered EXCEPT ![w] = rows]
  /\ UNCHANGED <<tables, response, fetched>>

\* The worker computes the result from the rows and answers.
ReturnInvocation(w) ==
  /\ request[w] # Idle
  /\ LET body == InvocationResult(request[w], delivered[w])
     IN  /\ response' = [op |-> request[w].op, body |-> body]
         /\ fetched' = Append(fetched, [request |-> request[w], rows |-> delivered[w],
                                        body |-> body,
                                        overlapped |-> InFlight # {w}])
  /\ request' = [request EXCEPT ![w] = Idle]
  /\ delivered' = [delivered EXCEPT ![w] = NoRows]
  /\ UNCHANGED tables

NextInvocations ==
  \E w \in Workers : BeginInvocation(w) \/ ReturnInvocation(w)

SpecInvocations == InitInvocations /\ [][NextInvocations]_vars

-----------------------------------------------------------------------------
(* C25 *)

-----------------------------------------------------------------------------
(* C26 *)

\* The value of column in the live row of the country of a ranking item on
\* the current snapshot date.
UnderlyingMetric(item, column) ==
  ValueOn(consultantCountry, "country", Some(item.country), ClaimedCurrentDate, column)

\* C26: a metric field of an output row reports absence when the metric of
\* the underlying snapshot row is NULL, never 0 or another number: in the
\* rows of get_country_rankings a NULL weight_factor or submissions_count is
\* reported as no number.
C26_NullMetricReportedAbsent ==
  Answered("country_rankings") /\ (request.quarter.given => request.quarter.matches) =>
    \A k \in 1..Len(response.body.items) :
      LET item == response.body.items[k]
      IN  /\ UnderlyingMetric(item, "weight_factor") = None
               => item.weight_factor \notin Int
          /\ UnderlyingMetric(item, "submissions_count") = None
               => item.submissions_count \notin Int

-----------------------------------------------------------------------------
(* app/core/cache.py: the cache key.  Strings are strings; a query is the
   sequence of the (name, value) pairs of the query string as Starlette
   decodes them, each name once. *)

\* An endpoint wrapped by cache_response: the namespace and vary_by_user of
\* its decorator and the path it is routed at.
CachedEndpoint(namespace, path, vary_by_user) ==
  [namespace |-> namespace, path |-> path, vary_by_user |-> vary_by_user]

CachedEndpoints ==
  { CachedEndpoint("leaderboard:value-factor-user-changes",
                   "/api/v1/leaderboard/value-factor-user-changes", FALSE),
    CachedEndpoint("dashboard:country-history",
                   "/api/v1/dashboard/country-history/CN", FALSE),
    CachedEndpoint("dashboard:country-history",
                   "/api/v1/dashboard/country-history/US", FALSE),
    CachedEndpoint("user:profile-history", "/api/v1/user/profile/history", TRUE) }

\* The query parameter names in the order of Python's string comparison.
QueryNames == <<"countries", "page">>

QueryValues == {"CN", "2", "CN&page=2"}

\* The queries: every sequence of pairs over distinct names.
Queries ==
  {<<>>}
  \cup {<<<<QueryNames[i], v>>>> : i \in 1..Len(QueryNames), v \in QueryValues}
  \cup {<<<<QueryNames[ij[1]], v>>, <<QueryNames[ij[2]], w>>>> :
          ij \in {p \in (1..Len(QueryNames)) \X (1..Len(QueryNames)) : p[1] # p[2]},
          v \in QueryValues, w \in QueryValues}

\* sorted(request.query_params.items())
SortedParams(query) ==
  LET present == SelectSeq(QueryNames, LAMBDA n : \E i \in 1..Len(query) : query[i][1] = n)
  IN  [k \in 1..Len(present) |->
         query[CHOOSE i \in 1..Len(query) : query[i][1] = present[k]]]

\* "&".join(f"{k}={v}" for k, v in params)
RECURSIVE JoinParams(_)
JoinParams(params) ==
  IF params = <<>> THEN ""
  ELSE LET pair == params[1][1] \o "=" \o params[1][2]
       IN  IF Len(params) = 1 THEN pair
           ELSE pair \o "&" \o JoinParams(Tail(params))

\* A system user: id is the primary key, wq_id the unique WorldQuant id.
SystemUser(id, wq_id) == [id |-> id, wq_id |-> wq_id]

SystemUsers == {SystemUser(Some(5), "W5"), SystemUser(Some(15), "W15")}

\* _build_cache_key
BuildCacheKey(namespace, path, query, current_user, vary_by_user) ==
  LET text == JoinParams(SortedParams(query))
      base == IF text # "" THEN path \o "?" \o text ELSE path
      user_part ==
        IF vary_by_user /\ current_user # None
        THEN LET user == Val(current_user)
             IN  IF user.id # None THEN ":uid:" \o ToString(Val(user.id))
                 ELSE IF user.wq_id # "" THEN ":wq:" \o user.wq_id
                 ELSE ""
        ELSE ""
  IN  namespace \o ":" \o base \o user_part

\* A request to a wrapped endpoint by an authenticated user.
CachedRequest(endpoint, query, user) ==
  [endpoint |-> endpoint, query |-> query, current_user |-> Some(user)]

CacheKeyOf(req) ==
  BuildCacheKey(req.endpoint.namespace, req.endpoint.path, req.query, req.current_user,
                req.endpoint.vary_by_user)

CachedRequests ==
  {CachedRequest(e, q, u) : e \in CachedEndpoints, q \in Queries, u \in SystemUsers}

\* Two requests, and the keys _build_cache_key gives them.
InitCacheKey ==
  /\ consultantUser = {}
  /\ geniusUser = {}
  /\ consultantCountry = {}
  /\ geniusCountry = {}
  /\ consultantUniversity = {}
  /\ eventUpdateRecord = {}
  /\ redis = <<>>
  /\ \E first \in CachedRequests, second \in CachedRequests :
       Arrived([op |-> "build_cache_key", first |-> first, second |-> second])

ApplyBuildCacheKey ==
  /\ request.op = "build_cache_key"
  /\ response = Pending
  /\ response' = [op |-> request.op,
                  body |-> [first |-> CacheKeyOf(request.first),
                            second |-> CacheKeyOf(request.second)]]
  /\ UNCHANGED <<tables, request, delivered, fetched>>

SpecCacheKey == InitCacheKey /\ [][ApplyBuildCacheKey]_vars

-----------------------------------------------------------------------------
(* C28 *)

\* The set of the query parameters of a request.
ParamsOf(req) == {req.query[i] : i \in 1..Len(req.query)}

\* The user a key is to vary by.
IdentityOf(req) == IF req.endpoint.vary_by_user THEN req.current_user ELSE None

\* C28: the key is a function of the namespace, the path, the set of query
\* parameters and the user identity: two requests that differ in the order
\* of their parameters only get one key; requests that differ in a parameter
\* value, the path or the namespace get different keys; and under
\* vary_by_user two different users get different keys.
C28_KeyDistinguishesRequests ==
  Answered("build_cache_key") =>
    LET a == request.first
        b == request.second
        same == /\ a.endpoint.namespace = b.endpoint.namespace
                /\ a.endpoint.path = b.endpoint.path
                /\ ParamsOf(a) = ParamsOf(b)
                /\ IdentityOf(a) = IdentityOf(b)
    IN  (response.body.first = response.body.second) <=> same

\* The part of C28 about users: under vary_by_user two different users never
\* get one key.
C28_UsersNeverShareKey ==
  Answered("build_cache_key") =>
    LET a == request.first
        b == request.second
    IN  a.endpoint.vary_by_user /\ b.endpoint.vary_by_user
          /\ a.current_user # b.current_user
          => response.body.first # response.body.second

-----------------------------------------------------------------------------
(* app/core/cache.py: cache_response.  redis is <<>> when get_redis() gives
   None, otherwise it maps every key to None (no entry) or to the entry
   stored under it.  fetched records the calls answered before. *)

MaxCalls == 2

\* json.dumps of a payload, and a text that is no JSON document (or empty).
JsonDumps(payload) == [decodable |-> TRUE, content |-> payload]

JunkText == [decodable |-> FALSE]

\* json.loads
JsonLoads(text) ==
  IF text.decodable THEN Returned(text.content) ELSE Raised("JSONDecodeError")

\* What the wrapped handlers return: a value jsonable_encoder encodes, or
\* one it raises on.
HandlerResult(value, encodable) == [value |-> value, encodable |-> encodable]

\* jsonable_encoder
JsonableEncoder(result) ==
  IF result.encodable THEN Returned([data |-> result.value]) ELSE Raised("ValueError")

\* The outcomes of a call of the wrapped handler: a result, or HTTPException.
HandlerOutcomes ==
  {Returned(HandlerResult(2, e)) : e \in BOOLEAN} \cup {Raised("HTTPException")}

\* _seconds_until_expire: the seconds to the next expiry time, 60 at least.
SecondsUntilExpire(seconds) == Max2(seconds, 60)

\* An entry written without an expiry.
StoredEntryWithoutExpiry(payload, ttl) == Some([text |-> JsonDumps(payload), ex |-> None])

\* redis.set(cache_key, json.dumps(payload, ensure_ascii=False), ex=ttl)
StoredEntry(payload, ttl) == Some([text |-> JsonDumps(payload), ex |-> Some(ttl)])

\* JSONResponse(content=...)
JSONResponse(content) == [status_code |-> 200, content |-> content]

\* The calls of the wrapped endpoints: the keyword arguments the wrapper
\* finds (request may be missing).
CacheCall(req, has_request) ==
  [op |-> "cache_response", endpoint |-> req.endpoint, query |-> req.query,
   current_user |-> req.current_user, has_request |-> has_request]

CacheCalls ==
  {CacheCall(CachedRequest(e, q, u), h) :
     e \in {x \in CachedEndpoints : x.namespace # "dashboard:country-history"},
     q \in {<<>>}, u \in {SystemUser(Some(5), "W5")}, h \in BOOLEAN}

CacheKeys == {CacheKeyOf(c) : c \in CacheCalls}

\* The wrapper of cache_response around one call of the handler.  store is
\* the content of Redis, outcome what the handler does if it is called,
\* get_fails / set_fails whether redis.get / redis.set raise, seconds the
\* time left to the expiry time.
CacheResponse(call, store, outcome, get_fails, set_fails, seconds) ==
  LET unchanged == [redis |-> store, reads |-> 0, writes |-> 0]
      invoked == [body |-> outcome, invoked |-> 1]
  IN  IF ~call.has_request \/ store = <<>>
      THEN invoked @@ unchanged
      ELSE
        LET ttl == SecondsUntilExpire(seconds)
            cache_key == CacheKeyOf(call)
            cached == IF get_fails THEN None ELSE store[cache_key]
            read == [unchanged EXCEPT !.reads = 1]
            hit == /\ cached # None
                   /\ JsonLoads(Val(cached).text).returned
        IN  IF hit
            THEN [body |-> Returned(JSONResponse(JsonLoads(Val(cached).text).value)),
                  invoked |-> 0] @@ read
            ELSE IF ~outcome.returned THEN invoked @@ read
            ELSE LET payload == JsonableEncoder(outcome.value)
                 IN  IF ~payload.returned THEN invoked @@ read
                     ELSE IF set_fails THEN invoked @@ [read EXCEPT !.writes = 1]
                     ELSE invoked @@
                          [read EXCEPT !.writes = 1,
                                       !.redis = [store EXCEPT ![cache_key] =
                                                    StoredEntry(payload.value, ttl)]]

InitCache ==
  /\ consultantUser = {}
  /\ geniusUser = {}
  /\ consultantCountry = {}
  /\ geniusCountry = {}
  /\ consultantUniversity = {}
  /\ eventUpdateRecord = {}
  /\ \/ redis = <<>>
     \/ redis \in [CacheKeys -> {None, Some([text |-> JunkText, ex |-> Some(60)]),
                                 StoredEntry([data |-> 1], 60)}]
  /\ \E call \in CacheCalls : Arrived(call)

\* A call of a wrapped endpoint, the handler inside the wrapper included.
CallCachedEndpoint ==
  /\ request.op = "cache_response"
  /\ response = Pending
  /\ \E outcome \in HandlerOutcomes, get_fails \in BOOLEAN, set_fails \in BOOLEAN,
        seconds \in {1, 3600} :
       LET done == CacheResponse(request, redis, outcome, get_fails, set_fails, seconds)
       IN  /\ redis' = done.redis
           /\ response' = [op |-> request.op, body |-> done.body,
                           invoked |-> done.invoked, reads |-> done.reads,
                           writes |-> done.writes, before |-> redis,
                           after |-> done.redis,
                           handler |-> outcome, get_failed |-> get_fails,
                           set_failed |-> set_fails]
  /\ UNCHANGED <<consultantUser, geniusUser, consultantCountry, geniusCountry,
                 consultantUniversity, eventUpdateRecord, request, delivered, fetched>>

\* The next call arrives.
NextCall ==
  /\ request.op = "cache_response"
  /\ response # Pending
  /\ Len(fetched) + 1 < MaxCalls
  /\ \E call \in CacheCalls : request' = call
  /\ response' = Pending
  /\ fetched' = Append(fetched, [request |-> request, invoked |-> response.invoked,
                                 writes |-> response.writes,
                                 handler |-> response.handler,
                                 get_failed |-> response.get_failed,
                                 cached |-> IF response.before = <<>> THEN None
                                            ELSE response.before[CacheKeyOf(request)]])
  /\ UNCHANGED <<tables, delivered>>

\* The expiry of an entry, before the call that has arrived is served.
Expire ==
  /\ redis # <<>>
  /\ response = Pending
  /\ \E key \in DOMAIN redis :
       /\ redis[key] # None
       /\ redis' = [redis EXCEPT ![key] = None]
  /\ UNCHANGED <<consultantUser, geniusUser, consultantCountry, geniusCountry,
                 consultantUniversity, eventUpdateRecord, request, delivered, response, fetched>>

NextCache == CallCachedEndpoint \/ NextCall \/ Expire

SpecCache == InitCache /\ [][NextCache]_vars

-----------------------------------------------------------------------------
(* C27 *)

\* The entry the key of the answered call held when the call arrived.
EntryBefore == response.before[CacheKeyOf(request)]

\* The key held an entry that decodes.
HeldDecodableEntry ==
  /\ EntryBefore # None
  /\ Val(EntryBefore).text.decodable

\* C27: with Redis configured and a request argument, a call whose key holds
\* a decodable entry (and whose read succeeds) returns the stored payload
\* without invoking the handler; any other call invokes the handler once and
\* returns its result unchanged, then stores it under the key with a TTL
\* unless the encoding or the write fails; no failure of the cache changes
\* or prevents the handler's response.  Without Redis or without a request
\* argument the handler is invoked and nothing is read or written.
C27_CacheNeverAltersResponse ==
  Answered("cache_response") =>
    LET r == response
        key == CacheKeyOf(request)
    IN  IF r.before = <<>> \/ ~request.has_request
        THEN /\ r.invoked = 1
             /\ r.body = r.handler
             /\ r.reads = 0
             /\ r.writes = 0
             /\ r.after = r.before
        ELSE IF ~r.get_failed /\ HeldDecodableEntry
        THEN /\ r.invoked = 0
             /\ r.body = Returned([status_code |-> 200,
                                   content |-> Val(EntryBefore).text.content])
             /\ r.after = r.before
        ELSE /\ r.invoked = 1
             /\ r.body = r.handler
             /\ \A other \in DOMAIN r.before \ {key} : r.after[other] = r.before[other]
             /\ IF r.handler.returned /\ r.handler.value.encodable /\ ~r.set_failed
                THEN /\ r.after[key] # None
                     /\ Val(r.after[key]).text
                          = [decodable |-> TRUE,
                             content |-> [data |-> r.handler.value.value]]
                     /\ Val(r.after[key]).ex # None
                     /\ Val(Val(r.after[key]).ex) > 0
                ELSE r.after[key] = r.before[key]

\* A call answered from the entry that the call before it, of the same key,
\* stored after it had met an undecodable entry.
C27_Witness ==
  /\ Answered("cache_response")
  /\ request.has_request
  /\ response.before # <<>>
  /\ response.invoked = 0
  /\ Len(fetched) = 1
  /\ fetched[1].request = request
  /\ fetched[1].cached = Some([text |-> JunkText, ex |-> Some(60)])
  /\ fetched[1].invoked = 1
  /\ fetched[1].writes = 1
  /\ response.body.value.content = [data |-> fetched[1].handler.value.value]

-----------------------------------------------------------------------------
(* get_user_metric_trends_by_event of the leaderboard service and of the
   user service *)

MaxEvents == 3

\* A row of event_update_record.
EventUpdateRecordRow(id, update_content, update_date, date_range) ==
  [id |-> id, update_content |-> update_content, update_date |-> update_date,
   date_range |-> date_range]

\* str.lower / func.lower on the contents that occur.
Lower(content) ==
  CASE content = "Combined" -> "combined"
    [] content = "VALUE_FACTOR" -> "value_factor"
    [] OTHER -> content

\* date.isoformat() of a day of February 2026.
IsoFormat(d) == "2026-02-" \o (IF d < 10 THEN "0" ELSE "") \o ToString(d)

\* An order of the markers by update_date in which, within a date, the
\* marker of the smaller id comes last.
EventBeforeIdDescending(a, b) ==
  \/ Val(a.update_date) < Val(b.update_date)
  \/ Val(a.update_date) = Val(b.update_date) /\ a.id > b.id

\* ORDER BY update_date ASC, id ASC
EventBefore(a, b) ==
  \/ Val(a.update_date) < Val(b.update_date)
  \/ Val(a.update_date) = Val(b.update_date) /\ a.id < b.id

\* The events query: the dated markers of the two metric families inside
\* the window (None: no window), ordered by update_date, then id.
EventRows(events, window) ==
  LET selected ==
        {e \in events :
           /\ e.update_date # None
           /\ e.update_content # None
           /\ Lower(Val(e.update_content)) \in {"value_factor", "combined"}
           /\ window # None =>
                /\ Val(e.update_date) >= Val(window).start_date
                /\ Val(e.update_date) <= Val(window).end_date}
  IN  CHOOSE s \in Orders(selected) :
        \A i \in 1..Len(s) : \A j \in (i + 1)..Len(s) : EventBefore(s[i], s[j])

\* The dictionary {update_date: event_payload} the loop builds for one
\* family: a later row of a date replaces the earlier one.
RECURSIVE EventsByDate(_, _)
EventsByDate(rows, family) ==
  IF rows = <<>> THEN <<>>
  ELSE LET front == EventsByDate(SubSeq(rows, 1, Len(rows) - 1), family)
           row == rows[Len(rows)]
           payload == [update_date |-> Val(row.update_date), date_range |-> row.date_range]
           Other(p) == p.update_date # payload.update_date
       IN  IF Lower(Val(row.update_content)) # family THEN front
           ELSE IF \E i \in 1..Len(front) : ~Other(front[i])
           THEN [i \in 1..Len(front) |-> IF Other(front[i]) THEN front[i] ELSE payload]
           ELSE Append(front, payload)

\* [events_by_date[d] for d in sorted(events_by_date.keys())]
SortedEvents(by_date) ==
  LET dates == {by_date[i].update_date : i \in 1..Len(by_date)}
      sorted == AscendingSeq(dates)
  IN  [k \in 1..Len(sorted) |->
         by_date[CHOOSE i \in 1..Len(by_date) : by_date[i].update_date = sorted[k]]]

\* event["date_range"] or event["update_date"].isoformat()
DateRangeLabel(event) ==
  IF event.date_range = None \/ event.date_range = Some("")
  THEN IsoFormat(event.update_date)
  ELSE Val(event.date_range)

\* value_map.get(d): MAX(value_factor) of the user's live rows of the date,
\* None when there is no row.
EventValue(cu, user, d) ==
  MaxOpt({r.value_factor : r \in {x \in LiveOn(cu, d) : x.user = user}})

\* combined_map.get(d, {}).get(figure)
EventFigure(gu, user, d, figure) ==
  MaxOpt({r[figure] : r \in {x \in LiveOn(gu, d) : x.user = Some(user)}})

\* get_user_metric_trends_by_event
UserMetricTrendsByEvent(events, cu, gu, user, window) ==
  LET rows == EventRows(events, window)
      value_events == SortedEvents(EventsByDate(rows, "value_factor"))
      combined_events == SortedEvents(EventsByDate(rows, "combined"))
  IN  [value_factor_trend |->
         [k \in 1..Len(value_events) |->
            [update_date |-> IsoFormat(value_events[k].update_date),
             date_range |-> DateRangeLabel(value_events[k]),
             value_factor |-> EventValue(cu, user, value_events[k].update_date)]],
       combined_trend |->
         [k \in 1..Len(combined_events) |->
            LET d == combined_events[k].update_date
            IN  [update_date |-> IsoFormat(d),
                 date_range |-> DateRangeLabel(combined_events[k]),
                 combined_alpha_performance |->
                   EventFigure(gu, user, d, "combined_alpha_performance"),
                 combined_power_pool_alpha_performance |->
                   EventFigure(gu, user, d, "combined_power_pool_alpha_performance"),
                 combined_selected_alpha_performance |->
                   EventFigure(gu, user, d, "combined_selected_alpha_performance")]]]

\* leaderboard_service.get_user_metric_trends_by_event
GetUserMetricTrends ==
  /\ request.op = "user_metric_trends"
  /\ response = Pending
  /\ delivered' = EventRows(eventUpdateRecord, None)
  /\ response' = [op |-> request.op,
                  body |-> UserMetricTrendsByEvent(eventUpdateRecord, consultantUser,
                                                   geniusUser, request.user, None)]
  /\ UNCHANGED <<tables, request, fetched>>

\* user_service.get_user_metric_trends_by_event
GetProfileMetricTrends ==
  /\ request.op = "profile_metric_trends"
  /\ response = Pending
  /\ LET window == Some([start_date |-> request.start_date, end_date |-> request.end_date])
     IN  /\ delivered' = EventRows(eventUpdateRecord, window)
         /\ response' = [op |-> request.op,
                         body |-> UserMetricTrendsByEvent(eventUpdateRecord, consultantUser,
                                                          geniusUser, request.user, window)]
  /\ UNCHANGED <<tables, request, fetched>>

\* The markers: an id each, a content, a date (or none) and a label (or none).
EventContents == {"VALUE_FACTOR", "Combined", "weight"}

EventTables ==
  UNION {{{EventUpdateRecordRow(i, Some(f[i][1]), f[i][2],
                                IF f[i][3] THEN Some("range " \o ToString(i)) ELSE None)
             : i \in 1..n}
            : f \in [1..n -> EventContents \X {None, Some(9), Some(10)} \X BOOLEAN]}
           : n \in 0..MaxEvents}

InitMetricTrends ==
  /\ consultantUser =
       {ConsultantUserRow(1, 9, None, Some(50000), None, None, None, None),
        ConsultantUserRow(1, 11, None, Some(40000), None, None, None, None),
        [ConsultantUserRow(1, 10, None, Some(30000), None, None, None, None)
           EXCEPT !.delete_flag = TRUE],
        ConsultantUserRow(2, 10, None, None, None, None, None, None)}
  /\ geniusUser =
       {GeniusUserRow(Some(1), 10, None, None, Some(10000), None, Some(0)),
        GeniusUserRow(Some(2), 9, None, None, Some(20000), Some(10000), None)}
  /\ consultantCountry = {}
  /\ geniusCountry = {}
  /\ consultantUniversity = {}
  /\ eventUpdateRecord \in EventTables
  /\ redis = <<>>
  /\ \E user \in 1..2 :
       \/ Arrived([op |-> "user_metric_trends", user |-> user])
       \/ Arrived([op |-> "profile_metric_trends", user |-> user,
                   start_date |-> 10, end_date |-> 11])

NextMetricTrends == GetUserMetricTrends \/ GetProfileMetricTrends

SpecMetricTrends == InitMetricTrends /\ [][NextMetricTrends]_vars

-----------------------------------------------------------------------------
(* C29 *)

TrendOps == {"user_metric_trends", "profile_metric_trends"}

\* The markers of a metric family the answered operation reads: dated, of
\* the family whatever the case of the content, inside the window of the
\* profile operation.
MarkersOf(family) ==
  {e \in eventUpdateRecord :
     /\ e.update_date # None
     /\ e.update_content \in {Some(family), Some("VALUE_FACTOR"), Some("Combined")}
     /\ (family = "value_factor") = (e.update_content \in {Some(family), Some("VALUE_FACTOR")})
     /\ request.op = "profile_metric_trends" =>
          /\ Val(e.update_date) >= request.start_date
          /\ Val(e.update_date) <= request.end_date}

\* One point per distinct date of the markers, in strictly ascending order of
\* date; the label of a point is that of the marker of its date with the
\* greatest id.
OnePointPerEventDate(trend, family) ==
  LET dates == {Val(e.update_date) : e \in MarkersOf(family)}
  IN  /\ Len(trend) = Cardinality(dates)
      /\ \A d \in dates :
           LET k == Cardinality({x \in dates : x <= d})
               last == CHOOSE e \in MarkersOf(family) :
                         /\ e.update_date = Some(d)
                         /\ \A o \in MarkersOf(family) :
                              o.update_date = Some(d) => o.id <= e.id
           IN  /\ trend[k].update_date = IsoFormat(d)
               /\ last.date_range # None => trend[k].date_range = Val(last.date_range)
               /\ last.date_range = None => trend[k].date_range = IsoFormat(d)

\* The date of a point: the day whose ISO text it carries.
DayOfPoint(point) == CHOOSE d \in 1..28 : IsoFormat(d) = point.update_date

\* C29: each trend list of get_user_metric_trends_by_event has exactly one
\* point per distinct event date of its family, in strictly ascending order
\* of update_date; the label of a date with several markers is that of the
\* marker with the greatest id; the metric of a point is null when the user
\* has no snapshot row on the date.
C29_OnePointPerEventDate ==
  \A op \in TrendOps :
    Answered(op) =>
      LET b == response.body
      IN  /\ OnePointPerEventDate(b.value_factor_trend, "value_factor")
          /\ OnePointPerEventDate(b.combined_trend, "combined")
          /\ \A k \in 1..Len(b.value_factor_trend) :
               (~\E r \in consultantUser :
                   /\ ~r.delete_flag
                   /\ r.user = request.user
                   /\ r.record_date = DayOfPoint(b.value_factor_trend[k]))
                 => b.value_factor_trend[k].value_factor = None
          /\ \A k \in 1..Len(b.combined_trend) :
               (~\E r \in geniusUser :
                   /\ ~r.delete_flag
                   /\ r.user = Some(request.user)
                   /\ r.record_date = DayOfPoint(b.combined_trend[k]))
                 => /\ b.combined_trend[k].combined_alpha_performance = None
                    /\ b.combined_trend[k].combined_power_pool_alpha_performance = None
                    /\ b.combined_trend[k].combined_selected_alpha_performance = None

\* Two value-factor markers on one date, labelled differently, and a third
\* on an earlier date; the user has a value on the earlier date and only a
\* deleted row on the later one.
C29_Witness ==
  /\ Answered("user_metric_trends")
  /\ request.user = 1
  /\ Len(response.body.value_factor_trend) = 2
  /\ Cardinality(MarkersOf("value_factor")) = 3
  /\ response.body.value_factor_trend[1].value_factor = Some(50000)
  /\ response.body.value_factor_trend[2].value_factor = None
  /\ response.body.value_factor_trend[2].date_range = "range 3"
  /\ \E e \in eventUpdateRecord :
       e.id = 1 /\ e.update_date = Some(10) /\ e.date_range = Some("range 1")

-----------------------------------------------------------------------------
(* C30 *)

\* The joined days of user u inside the window [baseline_start, end] of the
\* request, where the range resolved to [start, end].
WindowDays(u, start, end) ==
  {d \in JoinedDays(u) : d >= BaselineStart(start, end) /\ d <= end}

\* C30: in get_genius_user_weight_changes the start_weight of a user is the
\* weight of the user's earliest joined row within [baseline_start, end] and
\* the end_weight that of the latest, whatever the dates of these rows; a
\* user with exactly one row in the window is ranked with weight_change 0;
\* every user with at least one row in the window has exactly one entry.
C30_EarliestAndLatestRowOfWindow ==
  Answered("genius_user_weight_changes") =>
    LET range == ResolveDateRange(geniusUser, request.start_date, request.end_date)
    IN  range.start # None /\ range.end # None =>
          \A u \in {r.user : r \in consultantUser} :
            LET days == WindowDays(u, Val(range.start), Val(range.end))
            IN  days # {} =>
                  /\ Cardinality(EntriesOf(u)) = 1
                  /\ \A i \in EntriesOf(u) :
                       /\ response.body[i].start_weight = OrZero(UserWeightOn(u, SetMin(days)))
                       /\ response.body[i].end_weight = OrZero(UserWeightOn(u, SetMax(days)))
                       /\ response.body[i].rank = i
                       /\ Cardinality(days) = 1 =>
                            /\ response.body[i].weight_change = 0
                            /\ response.body[i].weight_change_percent \in {None, Some(Ratio(0, 1))}

\* The range starts on day 9: one user has a single row in the window, of
\* day 11, and is ranked with no change; another has rows of days 10 and 11
\* only, and starts from the weight of day 10.
C30_Witness ==
  /\ Answered("genius_user_weight_changes")
  /\ request.start_date = Some(9)
  /\ request.end_date = None
  /\ \E u, v \in {r.user : r \in consultantUser} :
       /\ WindowDays(u, 9, 11) = {11}
       /\ \E i \in EntriesOf(u) :
            /\ response.body[i].start_weight = 100004
            /\ response.body[i].weight_change = 0
       /\ WindowDays(v, 9, 11) = {10, 11}
       /\ \E i \in EntriesOf(v) :
            /\ response.body[i].start_weight = 0
            /\ response.body[i].end_weight = 5000

====
